---- MODULE Spec2Model ----
(***************************************************************************)
(* Change-tracking document model of firestore-orm (admin variant):        *)
(* FirestoreDocument instances bound to one remote path, the ledger of     *)
(* changed fields (_updated), the full-overwrite flag (_updatedAll) and    *)
(* the remote writes they issue.                                           *)
(***************************************************************************)
EXTENDS Integers, Sequences, FiniteSets, TLC

(***************************************************************************)
(* Bounds                                                                  *)
(***************************************************************************)
\* remote writes that may be awaiting completion at the same time
MaxInflight == 1
\* public API calls and data mutations made on one Document instance
MaxOps == 3

\* enqueue calls and dequeue calls made on one AsyncQueue
MaxEnq == 3
MaxDeq == 3

\* onSnapshot registrations made, and snapshots pushed, on one Document
MaxWatches == 2
MaxPushes == 2

\* calls made on one FirestoreCollection and pushes it takes in
MaxColOps == 3

\* times runTransaction runs the body of one transaction
MaxAttempts == 2

\* times another client changes the fields of one stored document
MaxVersion == 1

\* elements of an array value
MaxArrayLen == 1

\* characters in a key field's value
MaxKeyLen == 2

\* the Document instance under study
Docs == {"d1"}
\* top-level field names of the document data
Fields == {"name", "age"}

(***************************************************************************)
(* Values.  Every JavaScript value is a record [k, v]: k is the type tag.  *)
(***************************************************************************)
Num(n) == [k |-> "number", v |-> n]
DateV(t) == [k |-> "Date", v |-> t]
\* Timestamp.fromDate(new Date(t)): whole seconds and the rest in nanoseconds
TimestampV(t) ==
  [k |-> "Timestamp",
   v |-> [seconds |-> t \div 1000, nanoseconds |-> (t % 1000) * 1000000]]
\* toDate that keeps the whole seconds only
toMillisWholeSeconds(timestamp) == timestamp.v.seconds * 1000

\* timestamp.toDate().getTime()
toMillis(timestamp) ==
  timestamp.v.seconds * 1000 + timestamp.v.nanoseconds \div 1000000
\* a plain object literal without keys: {}
EmptyObj == [k |-> "Object", v |-> <<>>]
\* a plain object with the given own properties, an array with the given
\* elements, null
ObjV(props) == [k |-> "Object", v |-> props]
ArrV(elems) == [k |-> "Array", v |-> elems]
Null == [k |-> "null", v |-> 0]
Undefined == [k |-> "undefined", v |-> 0]
\* a string: the sequence of its characters
StrV(chars) == [k |-> "string", v |-> chars]
DELETE_FIELD == [k |-> "FieldValue.delete", v |-> 0]

\* the defined values a caller writes into a field: name holds a primitive,
\* age a Date or a plain object
ValuesOf(key) == IF key = "name" THEN {Num(1)} ELSE {DateV(1), EmptyObj}
Values == UNION {ValuesOf(key) : key \in {"name", "age"}}

\* a JavaScript object with no own property
EmptyData == [f \in {} |-> Undefined]
\* obj[key]: a missing property reads as undefined
Prop(obj, key) == IF key \in DOMAIN obj THEN obj[key] ELSE Undefined
\* the objects a caller passes to set(data)
DataInputs ==
  { [f \in {"name"} |-> Num(1)],
    [f \in Fields |-> IF f = "name" THEN Num(1) ELSE DateV(1)] }

defaultData == EmptyData

(***************************************************************************)
(* Serialization (document.ts 260-373).  A document's data is a function   *)
(* from field names to values; a nested plain object is ObjV of one.       *)
(***************************************************************************)
RECURSIVE serializeValue(_)
serializeObject(obj) ==
  LET kept == {key \in DOMAIN obj : serializeValue(obj[key]) # Undefined}
  IN  [key \in kept |-> serializeValue(obj[key])]

serializeValue(value) ==
  IF value = Null \/ value = Undefined THEN value
  ELSE IF value.k = "Array"
  THEN ArrV([i \in 1..Len(value.v) |-> serializeValue(value.v[i])])
  ELSE IF value.k = "Date" THEN TimestampV(value.v)
  ELSE IF value.k = "Timestamp" THEN value
  ELSE IF value.k = "Object" THEN ObjV(serializeObject(value.v))
  ELSE value

RECURSIVE unserializeValue(_)
unserializeObject(obj) == [key \in DOMAIN obj |-> unserializeValue(obj[key])]

unserializeValue(value) ==
  IF value = Null \/ value = Undefined THEN value
  ELSE IF value.k = "Array"
  THEN ArrV([i \in 1..Len(value.v) |-> unserializeValue(value.v[i])])
  ELSE IF value.k = "Timestamp" THEN DateV(toMillis(value))
  ELSE IF value.k = "Object" THEN ObjV(unserializeObject(value.v))
  ELSE value

unserialize(obj) == unserializeObject(obj)

\* serialize that ignores the ledger it is given
serializeWholeData(dat, updatedValues) == serializeObject(dat)

\* serialize(data, updatedValues): with a ledger only its keys, read from
\* data; without one (Undefined) the whole object.  The synthetic _id that
\* the second branch strips is no member of Fields.
serialize(dat, updatedValues) ==
  IF updatedValues # Undefined
  THEN LET kept == {key \in DOMAIN updatedValues :
                      serializeValue(Prop(dat, key)) # Undefined}
       IN  [key \in kept |-> serializeValue(Prop(dat, key))]
  ELSE serializeObject(dat)

(***************************************************************************)
(* deepEqual (shared/utils.ts).                                            *)
(***************************************************************************)
\* Object.is: primitives by value, objects by identity.  Both callers pass
\* a freshly cloned or freshly unserialized object as `a`, so an object in
\* it is never the same object as one held by the document.
ObjectIs(a, b) ==
  a = b /\ a.k \in {"number", "string", "null", "undefined"}

IsObjectType(a) ==
  a.k \in {"Date", "Timestamp", "Object", "Array", "FieldValue.delete"}

\* Object.keys of a value: a Date has no own enumerable key, a plain object
\* its properties, a Timestamp its seconds and nanoseconds, the delete
\* sentinel its method name.
OwnKeys(a) ==
  IF a.k = "Timestamp" THEN {"_seconds", "_nanoseconds"}
  ELSE IF a.k = "FieldValue.delete" THEN {"_methodName"}
  ELSE IF a.k = "Object" THEN DOMAIN a.v
  ELSE {}

OwnProp(a, key) ==
  IF key \notin OwnKeys(a) THEN Undefined
  ELSE IF a.k = "Object" THEN a.v[key]
  ELSE IF a.k = "Timestamp"
  THEN Num(IF key = "_seconds" THEN a.v.seconds ELSE a.v.nanoseconds)
  ELSE Num(a.v)

RECURSIVE deepEqualValue(_, _)
deepEqualValue(a, b) ==
  IF ObjectIs(a, b) THEN TRUE
  ELSE IF a \in {Null, Undefined} \/ b \in {Null, Undefined} THEN FALSE
  ELSE IF ~IsObjectType(a) \/ ~IsObjectType(b) THEN FALSE
  ELSE IF a.k = "Date" /\ b.k = "Date" THEN a.v = b.v
  ELSE IF a.k = "Array" /\ b.k = "Array"
  THEN /\ Len(a.v) = Len(b.v)
       /\ \A i \in 1..Len(a.v) : deepEqualValue(a.v[i], b.v[i])
  ELSE IF a.k = "Array" \/ b.k = "Array" THEN FALSE
  ELSE /\ Cardinality(OwnKeys(a)) = Cardinality(OwnKeys(b))
       /\ \A key \in OwnKeys(a) :
            deepEqualValue(OwnProp(a, key), OwnProp(b, key))

\* deepEqual(a, b) on two data objects: never the same object, both plain
deepEqual(a, b) ==
  /\ Cardinality(DOMAIN a) = Cardinality(DOMAIN b)
  /\ \A key \in DOMAIN a : deepEqualValue(a[key], Prop(b, key))

(***************************************************************************)
(* State                                                                   *)
(***************************************************************************)
VARIABLES
  reference,   \* reference[d]: the instance has a resolved DocumentReference
  data,        \* _data
  exist,       \* _exist
  isLoaded,    \* _isLoaded
  updated,     \* _updated: changed field -> value before the first change
  updatedAll,  \* _updatedAll
  remote,      \* the document stored at the path: [exists, fields]
  inflight,    \* remote writes issued and awaited, not yet completed
  written,     \* written[d]: field -> value last passed to the data proxy
               \* since the ledger was last cleared
  ops,         \* ops[d]: calls made on the instance so far
  overlap,     \* the caller starts a write on the instance while one it
               \* started is still pending, instead of awaiting each
  last         \* the step just taken: operation, instance, outcome, request

\* Document.watch / snapshot (document.ts 505-565)
VARIABLES
  watching,        \* _unwatch: the registration it cancels; id 0 is undefined
  watchCount,      \* onSnapshot registrations made so far
  seen,            \* the stored state last pushed to the registered listener
  pushCount,       \* snapshots pushed so far
  snapshotQueues,  \* _snapshotQueues: each queue named by its consumer
  queues,          \* queues[c]: the AsyncQueue made by consumer c's snapshot()
  pc,              \* pc[c]: where consumer c's generator is suspended
  got,             \* got[c]: the items yielded to consumer c so far
  listeners        \* the registrations the store holds for the instance:
                   \* made by onSnapshot and not cancelled since

\* one AsyncQueue and its callers (shared/async-queue.ts)
VARIABLES
  aq,           \* the queue: [queue, resolvers]
  results,      \* results[k]: the item the k-th dequeue call received, 0 if
                \* its promise is still pending
  nEnq,         \* enqueue calls made so far; the k-th enqueues item k
  lostItems,    \* items that were in the backlog at a clear()
  lostWaiters   \* dequeue calls that were pending at a clear()

\* one FirestoreCollection (web/collection.ts, admin/firestore.ts)
VARIABLES
  documents,    \* _documents: id -> Document instance
  colLoaded,    \* isLoaded
  query,        \* a query is bound
  stored,       \* ids of the stored documents the query matches
  created,      \* Document instances constructed so far
  colWatch,     \* _unwatch is defined
  colSeen,      \* ids in the query result last pushed to the listener
  colOps,       \* calls made on the collection and pushes it took in
  colDirty,     \* ids whose Document in the map has unsaved changes
  colCallback,  \* the callback the registered listener runs
  colQueues,    \* _snapshotQueues: each queue named by its consumer
  cached,       \* _cachedDocuments
  colBacklog,   \* colBacklog[c]: arrays buffered in consumer c's queue
  colPc,        \* colPc[c]: where consumer c's generator is suspended
  colFirst,     \* colFirst[c]: the first array yielded to consumer c
  colRead,      \* the getDocs() read a get() awaits: the ids it read, and
                \* the ids pushes added and removed since
  storedData,   \* storedData[id]: the field values of the stored document
  docData,      \* docData[id]: the field values the Document in the map holds
  colListeners  \* the listeners the store holds for the collection

\* one call of a pure function (serialization, key parsing)
VARIABLES
  call          \* its arguments, the values it passes on and what it returns

liveVars == <<watching, listeners, watchCount, seen, pushCount,
              snapshotQueues, queues, pc, got>>
queueVars == <<aq, results, nEnq, lostItems, lostWaiters>>
colLive == <<colCallback, colQueues, cached, colBacklog, colPc, colFirst>>
colVars == <<documents, colLoaded, query, stored, created, colWatch,
             colListeners,
            colSeen, colOps, colDirty, colLive, colRead, storedData,
            docData>>

pureVars == <<call>>

vars == <<reference, data, exist, isLoaded, updated, updatedAll, remote,
          inflight, written, ops, overlap, last, liveVars, queueVars, colVars,
          pureVars>>

\* what the actions of each component leave alone
notDoc == <<liveVars, queueVars, colVars, pureVars>>
notLive == <<queueVars, colVars, pureVars>>
notCol == <<liveVars, queueVars, pureVars>>
notQueue == <<liveVars, colVars, pureVars>>

docVars == <<data, exist, isLoaded, updated, updatedAll>>
docAll == <<reference, docVars, remote, inflight, written, ops, overlap>>

NoRequest == [doc |-> "none", kind |-> "none", payload |-> EmptyData,
              ledger |-> {}, tx |-> FALSE, op |-> "none", arg |-> Undefined]

Event(op, d, res, arg, req) ==
  [op |-> op, doc |-> d, res |-> res, arg |-> arg, req |-> req]

\* isDirty
isDirty(d) == Cardinality(DOMAIN updated[d]) > 0 \/ updatedAll[d]

(***************************************************************************)
(* Change tracking (document.ts 388-464, 598-609)                          *)
(***************************************************************************)
Without(obj, key) == [f \in (DOMAIN obj) \ {key} |-> obj[f]]
With(obj, key, value) ==
  [f \in (DOMAIN obj) \cup {key} |-> IF f = key THEN value ELSE obj[f]]

\* setValue that records a field only while the ledger is empty
setValueTracksFirst(dat, upd, ex, key, value) ==
  LET upd2 == IF upd # EmptyData THEN upd
              ELSE With(upd, key, Prop(dat, key))
      dat2 == IF value = Undefined
              THEN IF key \in DOMAIN dat
                   THEN IF ex THEN With(dat, key, DELETE_FIELD)
                        ELSE Without(dat, key)
                   ELSE dat
              ELSE With(dat, key, value)
  IN  [data |-> dat2, updated |-> upd2]

\* setValue(key, value) on a document holding dat, the ledger upd and the
\* existence flag ex: the data and ledger it leaves
setValue(dat, upd, ex, key, value) ==
  LET oldValue == Prop(dat, key)
      upd2 == IF key \in DOMAIN upd THEN upd
              ELSE IF oldValue # DELETE_FIELD THEN With(upd, key, oldValue)
              ELSE With(upd, key, Undefined)
      dat2 == IF value = Undefined
              THEN IF key \in DOMAIN dat
                   THEN IF ex THEN With(dat, key, DELETE_FIELD)
                        ELSE Without(dat, key)
                   ELSE dat
              ELSE With(dat, key, value)
  IN  [data |-> dat2, updated |-> upd2]

\* setData whose equal branch clears the full-overwrite flag whatever its
\* updatedAll argument
setDataEqualClears(dat, incoming, flag) ==
  IF deepEqual(incoming, dat)
  THEN [data |-> dat, updated |-> EmptyData, updatedAll |-> FALSE,
        changed |-> FALSE]
  ELSE [data |-> [key \in DOMAIN incoming |->
                    IF incoming[key] = DELETE_FIELD THEN Undefined
                    ELSE incoming[key]],
        updated |-> EmptyData, updatedAll |-> flag, changed |-> TRUE]

\* setData(data, updatedAll) with `incoming` the cloned (or unserialized)
\* argument: the data, ledger and flag it leaves, and its return value
setData(dat, incoming, flag) ==
  IF deepEqual(incoming, dat)
  THEN [data |-> dat, updated |-> EmptyData, updatedAll |-> flag,
        changed |-> FALSE]
  ELSE [data |-> [key \in DOMAIN incoming |->
                    IF incoming[key] = DELETE_FIELD THEN Undefined
                    ELSE incoming[key]],
        updated |-> EmptyData, updatedAll |-> flag, changed |-> TRUE]

\* setDataFromSnapshot that passes setData its default updatedAll for a
\* snapshot that exists too
setDataFromSnapshotDefaultFlag(dat, snap) ==
  LET r == setData(dat, IF snap.exists THEN unserialize(snap.fields)
                        ELSE defaultData, TRUE)
  IN  [exist |-> snap.exists, data |-> r.data, updated |-> r.updated,
       updatedAll |-> r.updatedAll, changed |-> r.changed]

\* setDataFromSnapshot(snapshot) for a snapshot of the remote document snap
setDataFromSnapshot(dat, snap) ==
  IF ~snap.exists
  THEN LET r == setData(dat, defaultData, TRUE)
       IN  [exist |-> FALSE, data |-> r.data, updated |-> r.updated,
            updatedAll |-> r.updatedAll, changed |-> r.changed]
  ELSE LET r == setData(dat, unserialize(snap.fields), FALSE)
       IN  [exist |-> TRUE, data |-> r.data, updated |-> r.updated,
            updatedAll |-> r.updatedAll, changed |-> r.changed]

\* the state the constructor leaves for (key, data = null, exist)
Constructed(ex) ==
  LET r == setData(EmptyData, defaultData, ~ex)
  IN  [exist |-> ex, data |-> r.data, updated |-> r.updated,
       updatedAll |-> r.updatedAll]

(***************************************************************************)
(* The store: the one document at the path the instance points to         *)
(***************************************************************************)
HasDelete(payload) == \E key \in DOMAIN payload : payload[key] = DELETE_FIELD

\* reference.set(payload): replaces the stored fields
RemoteSet(payload) == [exists |-> TRUE, fields |-> payload]

\* reference.update(payload): merges the payload's fields into the stored
\* ones; a field mapped to the delete sentinel is removed
RemoteUpdate(rem, payload) ==
  LET gone == {key \in DOMAIN payload : payload[key] = DELETE_FIELD}
      keys == ((DOMAIN rem.fields) \cup (DOMAIN payload)) \ gone
  IN  [exists |-> TRUE,
       fields |-> [key \in keys |-> IF key \in DOMAIN payload
                                    THEN payload[key] ELSE rem.fields[key]]]

RemoteDelete == [exists |-> FALSE, fields |-> EmptyData]

\* the store accepts the write: update needs an existing document, set
\* refuses a delete sentinel
Accepts(rem, req) ==
  /\ req.kind = "update" => rem.exists
  /\ req.kind = "set" => ~HasDelete(req.payload)

Apply(rem, req) ==
  IF req.kind = "set" THEN RemoteSet(req.payload)
  ELSE IF req.kind = "update" THEN RemoteUpdate(rem, req.payload)
  ELSE RemoteDelete

RemoteInit ==
  { RemoteDelete,
    RemoteSet(serialize([f \in Fields |-> IF f = "name" THEN Num(1) ELSE DateV(1)],
                        Undefined)) }

(***************************************************************************)
(* AsyncQueue (shared/async-queue.ts).  Items and callers are numbered     *)
(* from 1; 0 stands for "none".                                            *)
(***************************************************************************)
\* new AsyncQueue()
NewQueue == [queue |-> <<>>, resolvers |-> <<>>]

\* an enqueue that hands the item to the waiter that called dequeue last
enqueueNewestWaiter(q, item) ==
  IF Len(q.resolvers) > 0
  THEN [q |-> [q EXCEPT !.resolvers = SubSeq(@, 1, Len(@) - 1)],
        resolved |-> q.resolvers[Len(q.resolvers)], item |-> item]
  ELSE [q |-> [q EXCEPT !.queue = Append(@, item)],
        resolved |-> 0, item |-> item]

\* enqueue(item): the queue it leaves and the waiter whose promise it
\* resolved with the item
enqueue(q, item) ==
  IF Len(q.resolvers) > 0
  THEN [q |-> [q EXCEPT !.resolvers = Tail(@)],
        resolved |-> Head(q.resolvers), item |-> item]
  ELSE [q |-> [q EXCEPT !.queue = Append(@, item)],
        resolved |-> 0, item |-> item]

\* a dequeue that parks the caller whatever the backlog holds
dequeueParks(q, w) ==
  [q |-> [q EXCEPT !.resolvers = Append(@, w)], item |-> 0]

\* dequeue() called by waiter w: the queue it leaves and the item its promise
\* is resolved with at once, 0 if the promise stays pending
dequeue(q, w) ==
  IF Len(q.queue) > 0
  THEN [q |-> [q EXCEPT !.queue = Tail(@)], item |-> Head(q.queue)]
  ELSE [q |-> [q EXCEPT !.resolvers = Append(@, w)], item |-> 0]

\* a clear that empties the backlog only
clearBacklogOnly(q) == [q EXCEPT !.queue = <<>>]

\* clear()
clear(q) == [queue |-> <<>>, resolvers |-> <<>>]

\* length
length(q) == Len(q.queue)

Range(seq) == {seq[i] : i \in 1..Len(seq)}

(***************************************************************************)
(* The parts of the state a specification leaves alone                     *)
(***************************************************************************)
Consumers == {"c1", "c2"}
NoWatch == [id |-> 0, callback |-> "none"]
NotSeen == [exists |-> FALSE, fields |-> [f \in {"none"} |-> Undefined]]

LiveIdle ==
  /\ watching = NoWatch
  /\ listeners = {}
  /\ watchCount = 0
  /\ seen = NotSeen
  /\ pushCount = 0
  /\ snapshotQueues = <<>>
  /\ queues = [c \in Consumers |-> NewQueue]
  /\ pc = [c \in Consumers |-> "idle"]
  /\ got = [c \in Consumers |-> <<>>]

QueueIdle ==
  /\ aq = NewQueue
  /\ results = <<>>
  /\ nEnq = 0
  /\ lostItems = {}
  /\ lostWaiters = {}

NoCall == [fn |-> "none"]
PureIdle == call = NoCall

\* document ids, in the order the query returns them
IdOrder == <<"a", "b">>
Ids == Range(IdOrder)

\* no array: _cachedDocuments undefined, nothing yielded yet
NoArray == [set |-> FALSE, docs |-> <<>>]

\* no read awaited
NoRead == [pending |-> FALSE, ids |-> {}, data |-> <<>>, added |-> {},
           removed |-> {}]

ColLiveIdle ==
  /\ colCallback = "none"
  /\ colQueues = <<>>
  /\ cached = NoArray
  /\ colBacklog = [c \in Consumers |-> <<>>]
  /\ colPc = [c \in Consumers |-> "idle"]
  /\ colFirst = [c \in Consumers |-> NoArray]

ColIdle ==
  /\ documents = <<>>
  /\ colLoaded = FALSE
  /\ query = FALSE
  /\ stored = {}
  /\ created = 0
  /\ colWatch = FALSE
  /\ colListeners = 0
  /\ colSeen = {}
  /\ colOps = 0
  /\ colDirty = {}
  /\ ColLiveIdle
  /\ colRead = NoRead
  /\ storedData = [id \in Ids |-> 0]
  /\ docData = <<>>

(***************************************************************************)
(* Init: the instance constructed with default data, the `exist`          *)
(* argument either way, the key resolving to a reference or not            *)
(***************************************************************************)
Init ==
  /\ reference \in [Docs -> BOOLEAN]
  /\ exist \in [Docs -> BOOLEAN]
  /\ data = [d \in Docs |-> Constructed(exist[d]).data]
  /\ updated = [d \in Docs |-> Constructed(exist[d]).updated]
  /\ updatedAll = [d \in Docs |-> Constructed(exist[d]).updatedAll]
  /\ isLoaded = [d \in Docs |-> FALSE]
  /\ remote \in RemoteInit
  /\ inflight = <<>>
  /\ written = [d \in Docs |-> EmptyData]
  /\ ops = [d \in Docs |-> 0]
  /\ overlap = FALSE
  /\ last = Event("new", "none", "ok", Undefined, NoRequest)
  /\ LiveIdle /\ QueueIdle /\ ColIdle /\ PureIdle

Called(d) == /\ ops[d] < MaxOps
             /\ ops' = [ops EXCEPT ![d] = @ + 1]

(***************************************************************************)
(* The data proxy (document.ts 61-83)                                      *)
(***************************************************************************)
\* data[key] = value; assigning undefined is tracked as a removal
ProxySet(d, key, value) ==
  /\ Called(d)
  /\ LET r == setValue(data[d], updated[d], exist[d], key, value)
     IN  /\ data' = [data EXCEPT ![d] = r.data]
         /\ updated' = [updated EXCEPT ![d] = r.updated]
  /\ written' = [written EXCEPT ![d] = With(@, key, value)]
  /\ last' = Event("setValue", d, "ok", [key |-> key, value |-> value], NoRequest)
  /\ UNCHANGED <<notDoc, reference, overlap, exist, isLoaded, updatedAll, remote, inflight>>

\* delete data[key]
ProxyDelete(d, key) ==
  /\ Called(d)
  /\ LET r == setValue(data[d], updated[d], exist[d], key, Undefined)
     IN  /\ data' = [data EXCEPT ![d] = r.data]
         /\ updated' = [updated EXCEPT ![d] = r.updated]
  /\ written' = [written EXCEPT ![d] = With(@, key, Undefined)]
  /\ last' = Event("setValue", d, "ok", [key |-> key, value |-> Undefined], NoRequest)
  /\ UNCHANGED <<notDoc, reference, overlap, exist, isLoaded, updatedAll, remote, inflight>>

(***************************************************************************)
(* get(transaction, cache) (document.ts 169-182)                           *)
(***************************************************************************)
Get(d, cache) ==
  /\ Called(d)
  /\ IF cache /\ isLoaded[d]
     THEN /\ last' = Event("get", d, "cached", cache, NoRequest)
          /\ UNCHANGED <<docVars, written>>
     ELSE IF ~reference[d]
     THEN /\ last' = Event("get", d, "threw:reference", cache, NoRequest)
          /\ UNCHANGED <<docVars, written>>
     ELSE \/ \* the read rejects
             /\ last' = Event("get", d, "rejected", cache, NoRequest)
             /\ UNCHANGED <<docVars, written>>
          \/ \* the read resolves with a snapshot of the stored document
             /\ LET r == setDataFromSnapshot(data[d], remote)
                IN  /\ exist' = [exist EXCEPT ![d] = r.exist]
                    /\ data' = [data EXCEPT ![d] = r.data]
                    /\ updated' = [updated EXCEPT ![d] = r.updated]
                    /\ updatedAll' = [updatedAll EXCEPT ![d] = r.updatedAll]
             /\ isLoaded' = [isLoaded EXCEPT ![d] = TRUE]
             /\ written' = [written EXCEPT ![d] = EmptyData]
             /\ last' = Event("get", d, "ok", cache, NoRequest)
  /\ UNCHANGED <<notDoc, reference, overlap, remote, inflight>>

(***************************************************************************)
(* set, update, save, delete (document.ts 189-252, 388-392, 470-486)       *)
(***************************************************************************)
DocState(d) ==
  [data |-> data[d], updated |-> updated[d], updatedAll |-> updatedAll[d],
   exist |-> exist[d]]

Install(d, st) ==
  /\ data' = [data EXCEPT ![d] = st.data]
  /\ updated' = [updated EXCEPT ![d] = st.updated]
  /\ updatedAll' = [updatedAll EXCEPT ![d] = st.updatedAll]
  /\ exist' = [exist EXCEPT ![d] = st.exist]

\* afterSave that leaves the ledger as it is
afterSaveKeepsLedger(st) ==
  [st EXCEPT !.updatedAll = FALSE, !.exist = TRUE]

\* afterSave()
afterSave(st) ==
  [st EXCEPT !.updated = EmptyData, !.updatedAll = FALSE, !.exist = TRUE]

\* a remote write: its payload, the ledger keys it was serialized from, and
\* the call that made it.  tx: the write goes to the Transaction or
\* WriteBatch the caller passed
Request(d, kind, payload, ledger, tx) ==
  [doc |-> d, kind |-> kind, payload |-> payload, ledger |-> ledger, tx |-> tx,
   op |-> "none", arg |-> Undefined]

\* writes that may be pending at once: one more when the caller overlaps
InflightCap == IF overlap THEN MaxInflight + 1 ELSE MaxInflight

\* `transaction.<kind>(ref, saveData)` queues the write on the batch;
\* `await this.reference.<kind>(saveData)` sends it and suspends the call
Send(req, op, evArg) ==
  LET sent == [req EXCEPT !.op = op, !.arg = evArg] IN
  /\ Len(inflight) < InflightCap
  /\ inflight' = Append(inflight, sent)
  /\ last' = Event(op, req.doc, IF req.tx THEN "queued" ELSE "issued", evArg, sent)

\* set that replaces the data before it looks at the reference
setDataBeforeCheck(d, arg, tx, hookThrows, op, evArg) ==
  LET st0 == DocState(d)
      r   == setData(st0.data, arg, TRUE)
      st1 == IF arg # Undefined
             THEN [st0 EXCEPT !.data = r.data, !.updated = r.updated,
                              !.updatedAll = r.updatedAll]
             ELSE st0
      req == Request(d, "set", serialize(st1.data, Undefined),
                     DOMAIN st1.updated, tx)
  IN  /\ UNCHANGED isLoaded
      /\ IF ~reference[d]
         THEN /\ Install(d, st1)
              /\ last' = Event(op, d, "threw:reference", evArg, NoRequest)
              /\ UNCHANGED <<written, inflight>>
         ELSE IF hookThrows
         THEN /\ Install(d, st1)
              /\ written' = IF arg # Undefined
                            THEN [written EXCEPT ![d] = EmptyData]
                            ELSE written
              /\ last' = Event(op, d, "threw:beforeSave", evArg, NoRequest)
              /\ UNCHANGED inflight
         ELSE /\ Send(req, op, evArg)
              /\ Install(d, IF tx THEN afterSave(st1) ELSE st1)
              /\ written' = IF arg # Undefined \/ tx
                            THEN [written EXCEPT ![d] = EmptyData]
                            ELSE written

\* set(data, transaction) called as operation op; hookThrows: beforeSave()
\* throws
set(d, arg, tx, hookThrows, op, evArg) ==
  IF ~reference[d]
  THEN /\ last' = Event(op, d, "threw:reference", evArg, NoRequest)
       /\ UNCHANGED <<docVars, written, inflight>>
  ELSE LET st0 == DocState(d)
           r   == setData(st0.data, arg, TRUE)
           st1 == IF arg # Undefined
                  THEN [st0 EXCEPT !.data = r.data, !.updated = r.updated,
                                   !.updatedAll = r.updatedAll]
                  ELSE st0
           req == Request(d, "set", serialize(st1.data, Undefined),
                          DOMAIN st1.updated, tx)
       IN  /\ UNCHANGED isLoaded
           /\ IF hookThrows
              THEN /\ Install(d, st1)
                   /\ written' = IF arg # Undefined
                                 THEN [written EXCEPT ![d] = EmptyData]
                                 ELSE written
                   /\ last' = Event(op, d, "threw:beforeSave", evArg, NoRequest)
                   /\ UNCHANGED inflight
              ELSE /\ Send(req, op, evArg)
                   /\ Install(d, IF tx THEN afterSave(st1) ELSE st1)
                   /\ written' = IF arg # Undefined \/ tx
                                 THEN [written EXCEPT ![d] = EmptyData]
                                 ELSE written

\* update that runs beforeSave() after it has cleared its tracking
updateHookLast(d, tx, hookThrows, op, evArg) ==
  IF ~reference[d] \/ Cardinality(DOMAIN updated[d]) = 0
  THEN /\ last' = Event(op, d, "noop", evArg, NoRequest)
       /\ UNCHANGED <<docVars, written, inflight>>
  ELSE IF hookThrows
  THEN /\ last' = Event(op, d, "threw:beforeSave", evArg, NoRequest)
       /\ Install(d, afterSave(DocState(d)))
       /\ UNCHANGED <<isLoaded, written, inflight>>
  ELSE /\ Send(Request(d, "update", serialize(data[d], updated[d]),
                       DOMAIN updated[d], tx), op, evArg)
       /\ UNCHANGED isLoaded
       /\ Install(d, IF tx THEN afterSave(DocState(d)) ELSE DocState(d))
       /\ written' = IF tx THEN [written EXCEPT ![d] = EmptyData] ELSE written

\* update(transaction) called as operation op
update(d, tx, hookThrows, op, evArg) ==
  IF ~reference[d] \/ Cardinality(DOMAIN updated[d]) = 0
  THEN /\ last' = Event(op, d, "noop", evArg, NoRequest)
       /\ UNCHANGED <<docVars, written, inflight>>
  ELSE IF hookThrows
  THEN /\ last' = Event(op, d, "threw:beforeSave", evArg, NoRequest)
       /\ UNCHANGED <<docVars, written, inflight>>
  ELSE /\ Send(Request(d, "update", serialize(data[d], updated[d]),
                       DOMAIN updated[d], tx), op, evArg)
       /\ UNCHANGED isLoaded
       /\ Install(d, IF tx THEN afterSave(DocState(d)) ELSE DocState(d))
       /\ written' = IF tx THEN [written EXCEPT ![d] = EmptyData] ELSE written

Set(d, arg, tx, hookThrows) ==
  /\ Called(d)
  /\ set(d, arg, tx, hookThrows, "set", arg)
  /\ UNCHANGED <<notDoc, reference, overlap, remote>>

Update(d, tx, hookThrows) ==
  /\ Called(d)
  /\ update(d, tx, hookThrows, "update", Undefined)
  /\ UNCHANGED <<notDoc, reference, overlap, remote>>

\* a write the instance has sent and still awaits
Pending(d) ==
  {i \in 1..Len(inflight) :
     /\ inflight[i].doc = d /\ ~inflight[i].tx
     /\ inflight[i].kind \in {"set", "update"}}

\* save that returns at once while a write of the instance is pending
SaveOnePending(d, force, tx, hookThrows) ==
  /\ Called(d)
  /\ IF ~reference[d]
     THEN /\ last' = Event("save", d, "threw:reference", force, NoRequest)
          /\ UNCHANGED <<docVars, written, inflight>>
     ELSE IF Pending(d) # {}
     THEN /\ last' = Event("save", d, "noop", force, NoRequest)
          /\ UNCHANGED <<docVars, written, inflight>>
     ELSE IF exist[d] /\ ~force /\ ~updatedAll[d]
     THEN update(d, tx, hookThrows, "save", force)
     ELSE set(d, Undefined, tx, hookThrows, "save", force)
  /\ UNCHANGED <<notDoc, reference, overlap, remote>>

\* save that ignores its force argument
SaveIgnoresForce(d, force, tx, hookThrows) ==
  /\ Called(d)
  /\ IF ~reference[d]
     THEN /\ last' = Event("save", d, "threw:reference", force, NoRequest)
          /\ UNCHANGED <<docVars, written, inflight>>
     ELSE IF exist[d] /\ ~updatedAll[d]
     THEN update(d, tx, hookThrows, "save", force)
     ELSE set(d, Undefined, tx, hookThrows, "save", force)
  /\ UNCHANGED <<notDoc, reference, overlap, remote>>

\* save(force, transaction): the dispatcher
Save(d, force, tx, hookThrows) ==
  /\ Called(d)
  /\ IF ~reference[d]
     THEN /\ last' = Event("save", d, "threw:reference", force, NoRequest)
          /\ UNCHANGED <<docVars, written, inflight>>
     ELSE IF exist[d] /\ ~force /\ ~updatedAll[d]
     THEN update(d, tx, hookThrows, "save", force)
     ELSE set(d, Undefined, tx, hookThrows, "save", force)
  /\ UNCHANGED <<notDoc, reference, overlap, remote>>

\* delete that also forgets the tracked changes
DeleteClearsLedger(d, tx) ==
  /\ Called(d)
  /\ IF ~reference[d]
     THEN /\ last' = Event("delete", d, "threw:reference", Undefined, NoRequest)
          /\ UNCHANGED <<docVars, inflight>>
     ELSE IF ~exist[d]
     THEN /\ last' = Event("delete", d, "noop", Undefined, NoRequest)
          /\ UNCHANGED <<docVars, inflight>>
     ELSE /\ exist' = [exist EXCEPT ![d] = FALSE]
          /\ updated' = [updated EXCEPT ![d] = EmptyData]
          /\ UNCHANGED <<data, isLoaded, updatedAll>>
          /\ Send(Request(d, "delete", EmptyData, {}, tx), "delete", Undefined)
  /\ UNCHANGED <<notDoc, reference, overlap, remote, written>>

\* delete(transaction)
Delete(d, tx) ==
  /\ Called(d)
  /\ IF ~reference[d]
     THEN /\ last' = Event("delete", d, "threw:reference", Undefined, NoRequest)
          /\ UNCHANGED <<docVars, inflight>>
     ELSE IF ~exist[d]
     THEN /\ last' = Event("delete", d, "noop", Undefined, NoRequest)
          /\ UNCHANGED <<docVars, inflight>>
     ELSE /\ exist' = [exist EXCEPT ![d] = FALSE]
          /\ UNCHANGED <<data, isLoaded, updated, updatedAll>>
          /\ Send(Request(d, "delete", EmptyData, {}, tx), "delete", Undefined)
  /\ UNCHANGED <<notDoc, reference, overlap, remote, written>>

(***************************************************************************)
(* Completion of an awaited remote write, commit of the batch              *)
(***************************************************************************)
Remove(seq, i) ==
  [j \in 1..(Len(seq) - 1) |-> IF j < i THEN seq[j] ELSE seq[j + 1]]

\* the store applies the write and the suspended call runs on to afterSave
Resolve(i) ==
  LET req == inflight[i] IN
  /\ ~req.tx
  /\ Accepts(remote, req)
  /\ remote' = Apply(remote, req)
  /\ inflight' = Remove(inflight, i)
  /\ IF req.kind = "delete"
     THEN UNCHANGED <<docVars, written>>
     ELSE /\ Install(req.doc, afterSave(DocState(req.doc)))
          /\ written' = [written EXCEPT ![req.doc] = EmptyData]
          /\ UNCHANGED isLoaded
  /\ last' = Event("await", req.doc, "ok", Undefined, req)
  /\ UNCHANGED <<notDoc, reference, overlap, ops>>

\* a rejection after which the call still runs afterSave()
RejectThenAfterSave(i) ==
  LET req == inflight[i] IN
  /\ ~req.tx
  /\ inflight' = Remove(inflight, i)
  /\ last' = Event("await", req.doc, "rejected", Undefined, req)
  /\ Install(req.doc, afterSave(DocState(req.doc)))
  /\ UNCHANGED <<notDoc, reference, overlap, isLoaded, remote, written, ops>>

\* the write rejects: the suspended call throws at its await
Reject(i) ==
  LET req == inflight[i] IN
  /\ ~req.tx
  /\ inflight' = Remove(inflight, i)
  /\ last' = Event("await", req.doc, "rejected", Undefined, req)
  /\ UNCHANGED <<notDoc, reference, overlap, docVars, remote, written, ops>>

IsQueued(req) == req.tx
IsSent(req) == ~req.tx

RECURSIVE AcceptsAll(_, _)
AcceptsAll(rem, reqs) ==
  IF reqs = <<>> THEN TRUE
  ELSE /\ Accepts(rem, Head(reqs))
       /\ AcceptsAll(Apply(rem, Head(reqs)), Tail(reqs))

RECURSIVE ApplyAll(_, _)
ApplyAll(rem, reqs) ==
  IF reqs = <<>> THEN rem ELSE ApplyAll(Apply(rem, Head(reqs)), Tail(reqs))

\* batch.commit() resolves: every queued write is applied, atomically
Commit ==
  LET queued == SelectSeq(inflight, IsQueued) IN
  /\ queued # <<>>
  /\ AcceptsAll(remote, queued)
  /\ remote' = ApplyAll(remote, queued)
  /\ inflight' = SelectSeq(inflight, IsSent)
  /\ last' = Event("commit", "none", "ok", Undefined, NoRequest)
  /\ UNCHANGED <<notDoc, reference, overlap, docVars, written, ops>>

\* batch.commit() rejects: none of the queued writes is applied
CommitFails ==
  LET queued == SelectSeq(inflight, IsQueued) IN
  /\ queued # <<>>
  /\ inflight' = SelectSeq(inflight, IsSent)
  /\ last' = Event("commit", "none", "rejected", Undefined, NoRequest)
  /\ UNCHANGED <<notDoc, reference, overlap, docVars, remote, written, ops>>

(***************************************************************************)
(* Another client writing the same path: a second instance saving, which   *)
(* reaches this instance only through the store                            *)
(***************************************************************************)
OtherPayloads == { [f \in {"age"} |-> EmptyObj] }

OtherWrite(kind, payload) ==
  LET req == Request("other", kind, payload, DOMAIN payload, FALSE) IN
  /\ Accepts(remote, req)
  /\ remote' = Apply(remote, req)
  /\ remote' # remote
  /\ last' = Event("other", "other", "ok", Undefined, NoRequest)
  /\ UNCHANGED <<notDoc, reference, overlap, docVars, inflight, written, ops>>

Next ==
  \/ \E d \in Docs, key \in Fields :
       \E value \in ValuesOf(key) \cup {Undefined} : ProxySet(d, key, value)
  \/ \E d \in Docs, key \in Fields : ProxyDelete(d, key)
  \/ \E d \in Docs, cache \in BOOLEAN : Get(d, cache)
  \/ \E d \in Docs, arg \in DataInputs \cup {Undefined}, tx \in BOOLEAN,
        hookThrows \in BOOLEAN : Set(d, arg, tx, hookThrows)
  \/ \E d \in Docs, tx \in BOOLEAN, hookThrows \in BOOLEAN :
       Update(d, tx, hookThrows)
  \/ \E d \in Docs, force \in BOOLEAN, tx \in BOOLEAN, hookThrows \in BOOLEAN :
       Save(d, force, tx, hookThrows)
  \/ \E d \in Docs, tx \in BOOLEAN : Delete(d, tx)
  \/ \E i \in 1..Len(inflight) : Resolve(i)
  \/ \E i \in 1..Len(inflight) : Reject(i)
  \/ Commit
  \/ CommitFails
  \/ \E kind \in {"set", "update", "delete"}, payload \in OtherPayloads :
       OtherWrite(kind, payload)

Spec == Init /\ [][Next]_vars

(***************************************************************************)
(* Document.watch, unwatch and snapshot (document.ts 505-565).  A consumer *)
(* is the caller iterating one generator returned by snapshot().           *)
(***************************************************************************)
InitLive ==
  /\ reference \in [Docs -> BOOLEAN]
  /\ exist \in [Docs -> BOOLEAN]
  /\ data = [d \in Docs |-> Constructed(exist[d]).data]
  /\ updated = [d \in Docs |-> Constructed(exist[d]).updated]
  /\ updatedAll = [d \in Docs |-> Constructed(exist[d]).updatedAll]
  /\ isLoaded = [d \in Docs |-> FALSE]
  /\ remote \in RemoteInit
  /\ inflight = <<>>
  /\ written = [d \in Docs |-> EmptyData]
  /\ ops = [d \in Docs |-> 0]
  /\ overlap = FALSE
  /\ LiveIdle /\ QueueIdle /\ ColIdle /\ PureIdle
  /\ last = Event("new", "none", "ok", Undefined, NoRequest)

\* the item a push or the first enqueue hands on: `this`, numbered by the
\* pushes the instance has taken in
Item(n) == n + 1

\* watch that overwrites _unwatch without calling the function it held
WatchKeepsListener(d, callback) ==
  IF ~reference[d]
  THEN /\ last' = Event("watch", d, "threw:reference", Undefined, NoRequest)
       /\ UNCHANGED <<docAll, notDoc>>
  ELSE /\ watchCount < MaxWatches
       /\ snapshotQueues' = <<>>
       /\ watching' = [id |-> watchCount + 1, callback |-> callback]
       /\ listeners' = listeners \cup {watchCount + 1}
       /\ watchCount' = watchCount + 1
       /\ seen' = NotSeen
       /\ last' = Event("watch", d, "ok",
                        [callback |-> callback, replaced |-> watching.id],
                        NoRequest)
       /\ UNCHANGED <<docAll, notLive, pushCount, queues, pc, got>>

\* watch(callback): unwatch() first, then one new registration
Watch(d, callback) ==
  IF ~reference[d]
  THEN /\ last' = Event("watch", d, "threw:reference", Undefined, NoRequest)
       /\ UNCHANGED <<docAll, notDoc>>
  ELSE /\ watchCount < MaxWatches
       /\ snapshotQueues' = <<>>
       /\ watching' = [id |-> watchCount + 1, callback |-> callback]
       /\ listeners' = (listeners \ {watching.id}) \cup {watchCount + 1}
       /\ watchCount' = watchCount + 1
       /\ seen' = NotSeen
       /\ last' = Event("watch", d, "ok",
                        [callback |-> callback, replaced |-> watching.id],
                        NoRequest)
       /\ UNCHANGED <<docAll, notLive, pushCount, queues, pc, got>>

\* unwatch that cancels the listener and leaves the fan-out list alone
UnwatchKeepsQueues(d) ==
  /\ watching' = NoWatch
  /\ listeners' = listeners \ {watching.id}
  /\ seen' = NotSeen
  /\ last' = Event("unwatch", d, "ok", [cancelled |-> watching.id], NoRequest)
  /\ UNCHANGED <<docAll, notLive, watchCount, pushCount, queues,
                 pc, got, snapshotQueues>>

\* unwatch(), also the function watch() returned
Unwatch(d) ==
  /\ watching' = NoWatch
  /\ listeners' = listeners \ {watching.id}
  /\ seen' = NotSeen
  /\ snapshotQueues' = <<>>
  /\ last' = Event("unwatch", d, "ok", [cancelled |-> watching.id], NoRequest)
  /\ UNCHANGED <<docAll, notLive, watchCount, pushCount, queues,
                 pc, got>>

\* the consumers whose queue is in the fan-out list
Listed(queueList) == Range(queueList)

\* the store pushes the stored document to the registered listener: the
\* first snapshot after registration, then one for each change
Deliver(d) ==
  /\ watching.id # 0
  /\ remote # seen
  /\ pushCount < MaxPushes
  /\ LET r == setDataFromSnapshot(data[d], remote)
         item == Item(pushCount + 1)
         called == r.exist /\ watching.callback # "none"
         fanout == IF called /\ watching.callback = "fanout"
                   THEN Listed(snapshotQueues) ELSE {}
     IN  /\ exist' = [exist EXCEPT ![d] = r.exist]
         /\ data' = [data EXCEPT ![d] = r.data]
         /\ updated' = [updated EXCEPT ![d] = r.updated]
         /\ updatedAll' = [updatedAll EXCEPT ![d] = r.updatedAll]
         /\ queues' = [c \in Consumers |->
                         IF c \in fanout THEN enqueue(queues[c], item).q
                         ELSE queues[c]]
         /\ pc' = [c \in Consumers |->
                     IF c \in fanout /\ enqueue(queues[c], item).resolved # 0
                     THEN "yield" ELSE pc[c]]
         /\ got' = [c \in Consumers |->
                      IF c \in fanout /\ enqueue(queues[c], item).resolved # 0
                      THEN Append(got[c], item) ELSE got[c]]
         /\ last' = Event("push", d, IF called THEN "callback" ELSE "silent",
                          [id |-> watching.id, snapshot |-> remote,
                           item |-> item], NoRequest)
  /\ seen' = remote
  /\ pushCount' = pushCount + 1
  /\ UNCHANGED <<reference, overlap, isLoaded, remote, inflight, written, ops,
                 notLive, watching, listeners, watchCount, snapshotQueues>>

\* `await queue.dequeue()` then `yield`: the generator of consumer c either
\* yields the oldest buffered item or stays suspended in dequeue
AwaitDequeue(c, q, list) ==
  LET r == dequeue(q, 1) IN
  /\ queues' = [queues EXCEPT ![c] = r.q]
  /\ pc' = [pc EXCEPT ![c] = IF r.item # 0 THEN "yield" ELSE "waiting"]
  /\ got' = [got EXCEPT ![c] = IF r.item # 0 THEN Append(@, r.item) ELSE @]
  /\ snapshotQueues' = list

\* the first next() on snapshot(): from the top to the first suspension
SnapshotStart(d, c) ==
  /\ pc[c] = "idle"
  /\ LET q == IF exist[d] THEN enqueue(NewQueue, Item(pushCount)).q
              ELSE NewQueue
         pushed == Append(snapshotQueues, c)
     IN  IF watching.id # 0
         THEN /\ AwaitDequeue(c, q, pushed)
              /\ last' = Event("snapshot", c, "joined", Undefined, NoRequest)
              /\ UNCHANGED <<watching, listeners, watchCount, seen>>
         ELSE IF ~reference[d]
         THEN /\ queues' = [queues EXCEPT ![c] = q]
              /\ snapshotQueues' = pushed
              /\ pc' = [pc EXCEPT ![c] = "done"]
              /\ last' = Event("snapshot", c, "threw:reference", Undefined,
                               NoRequest)
              /\ UNCHANGED <<watching, listeners, watchCount, seen, got>>
         ELSE /\ watchCount < MaxWatches
              /\ watching' = [id |-> watchCount + 1, callback |-> "fanout"]
              /\ listeners' = (listeners \ {watching.id})
                               \cup {watchCount + 1}
              /\ watchCount' = watchCount + 1
              /\ seen' = NotSeen
              /\ AwaitDequeue(c, q, <<>>)
              /\ last' = Event("snapshot", c, "watched", Undefined, NoRequest)
  /\ UNCHANGED <<docAll, notLive, pushCount>>

\* splice(indexOf(queue), 1): indexOf is -1 for a queue not in the list, and
\* splice(-1, 1) removes the last element
Spliced(list, c) ==
  IF c \in Range(list)
  THEN SelectSeq(list, LAMBDA x : x # c)
  ELSE SubSeq(list, 1, Len(list) - 1)

\* the caller asks for the next item: the generator resumes after its yield
NextCall(c) ==
  /\ pc[c] = "yield"
  /\ IF watching.id # 0
     THEN /\ AwaitDequeue(c, queues[c], snapshotQueues)
          /\ last' = Event("next", c, "ok", Undefined, NoRequest)
          /\ UNCHANGED <<watching, listeners, seen>>
     ELSE /\ pc' = [pc EXCEPT ![c] = "done"]
          /\ snapshotQueues' = IF Len(Spliced(snapshotQueues, c)) = 0
                               THEN <<>> ELSE Spliced(snapshotQueues, c)
          /\ watching' = IF Len(Spliced(snapshotQueues, c)) = 0
                         THEN NoWatch ELSE watching
          /\ listeners' = IF Len(Spliced(snapshotQueues, c)) = 0
                          THEN listeners \ {watching.id} ELSE listeners
          /\ seen' = IF Len(Spliced(snapshotQueues, c)) = 0
                     THEN NotSeen ELSE seen
          /\ last' = Event("next", c, "done", Undefined, NoRequest)
          /\ UNCHANGED <<queues, got>>
  /\ UNCHANGED <<docAll, notLive, watchCount, pushCount>>

\* the caller leaves its loop: return() ends the generator at its yield, and
\* the statements after the while loop do not run
Return(c) ==
  /\ pc[c] = "yield"
  /\ pc' = [pc EXCEPT ![c] = "returned"]
  /\ last' = Event("return", c, "ok", Undefined, NoRequest)
  /\ UNCHANGED <<docAll, notLive, watching, listeners, watchCount, seen,
                 pushCount, snapshotQueues, queues, got>>

NextLive ==
  \/ \E d \in Docs, callback \in {"none", "user"} : Watch(d, callback)
  \/ \E d \in Docs : Unwatch(d)
  \/ \E d \in Docs : Deliver(d)
  \/ \E d \in Docs, c \in Consumers : SnapshotStart(d, c)
  \/ \E c \in Consumers : NextCall(c)
  \/ \E c \in Consumers : Return(c)
  \/ \E kind \in {"set", "update", "delete"}, payload \in OtherPayloads :
       OtherWrite(kind, payload)

SpecLive == InitLive /\ [][NextLive]_vars

\* the caller of snapshot() keeps asking for the next item, and the store
\* keeps pushing
FairSpecLive ==
  /\ SpecLive
  /\ \A c \in Consumers : WF_vars(NextCall(c))
  /\ \A d \in Docs : WF_vars(Deliver(d))

(***************************************************************************)
(* Writes below the top level: `data[key][prop] = value` reads data[key]   *)
(* through the proxy's get trap, which returns the object held in _data,   *)
(* and assigns to that object (document.ts 61-83)                          *)
(***************************************************************************)
\* the property names a caller writes inside a nested object
InnerProps == {"x"}

\* data[key][prop] = value, for a field that holds a plain object
NestedSet(d, key, prop, value) ==
  /\ Called(d)
  /\ key \in DOMAIN data[d]
  /\ data[d][key].k = "Object"
  /\ data' = [data EXCEPT ![d] =
                With(@, key, ObjV(With(data[d][key].v, prop, value)))]
  /\ last' = Event("setNested", d, "ok",
                   [key |-> key, prop |-> prop, value |-> value], NoRequest)
  /\ UNCHANGED <<notDoc, reference, overlap, exist, isLoaded, updated,
                 updatedAll, remote, inflight, written>>

NextNested ==
  \/ \E d \in Docs, key \in Fields :
       \E value \in ValuesOf(key) \cup {Undefined} : ProxySet(d, key, value)
  \/ \E d \in Docs, key \in Fields, prop \in InnerProps :
       NestedSet(d, key, prop, Num(1))
  \/ \E d \in Docs, cache \in BOOLEAN : Get(d, cache)
  \/ \E d \in Docs, force \in BOOLEAN : Save(d, force, FALSE, FALSE)
  \/ \E i \in 1..Len(inflight) : Resolve(i)

SpecNested == Init /\ [][NextNested]_vars

(***************************************************************************)
(* A caller that does not await: it calls save() again while the write of  *)
(* an earlier save() is pending (document.ts 217-252)                      *)
(***************************************************************************)
InitOverlap ==
  /\ reference = [d \in Docs |-> TRUE]
  /\ exist \in [Docs -> BOOLEAN]
  /\ data = [d \in Docs |-> Constructed(exist[d]).data]
  /\ updated = [d \in Docs |-> Constructed(exist[d]).updated]
  /\ updatedAll = [d \in Docs |-> Constructed(exist[d]).updatedAll]
  /\ isLoaded = [d \in Docs |-> FALSE]
  /\ remote \in RemoteInit
  /\ inflight = <<>>
  /\ written = [d \in Docs |-> EmptyData]
  /\ ops = [d \in Docs |-> 0]
  /\ overlap = TRUE
  /\ last = Event("new", "none", "ok", Undefined, NoRequest)
  /\ LiveIdle /\ QueueIdle /\ ColIdle /\ PureIdle

NextOverlap ==
  \/ \E d \in Docs, key \in Fields :
       \E value \in ValuesOf(key) \cup {Undefined} : ProxySet(d, key, value)
  \/ \E d \in Docs, force \in BOOLEAN : Save(d, force, FALSE, FALSE)
  \/ \E i \in 1..Len(inflight) : Resolve(i)
  \/ \E i \in 1..Len(inflight) : Reject(i)

SpecOverlap == InitOverlap /\ [][NextOverlap]_vars

(***************************************************************************)
(* A Document constructed without a key: no path resolves, reference stays *)
(* undefined, and the caller uses the whole API on it                      *)
(***************************************************************************)
InitDetached ==
  /\ InitLive
  /\ reference = [d \in Docs |-> FALSE]

NextDetached ==
  \/ \E d \in Docs, key \in Fields :
       \E value \in ValuesOf(key) \cup {Undefined} : ProxySet(d, key, value)
  \/ \E d \in Docs, key \in Fields : ProxyDelete(d, key)
  \/ \E d \in Docs, cache \in BOOLEAN : Get(d, cache)
  \/ \E d \in Docs, arg \in DataInputs \cup {Undefined}, tx \in BOOLEAN,
        hookThrows \in BOOLEAN : Set(d, arg, tx, hookThrows)
  \/ \E d \in Docs, tx \in BOOLEAN, hookThrows \in BOOLEAN :
       Update(d, tx, hookThrows)
  \/ \E d \in Docs, force \in BOOLEAN, tx \in BOOLEAN, hookThrows \in BOOLEAN :
       Save(d, force, tx, hookThrows)
  \/ \E d \in Docs, tx \in BOOLEAN : Delete(d, tx)
  \/ \E d \in Docs, callback \in {"none", "user"} : Watch(d, callback)

SpecDetached == InitDetached /\ [][NextDetached]_vars

\* a Document that takes no part: constructed, never called
DocIdle ==
  /\ reference = [d \in Docs |-> TRUE]
  /\ exist = [d \in Docs |-> FALSE]
  /\ data = [d \in Docs |-> Constructed(FALSE).data]
  /\ updated = [d \in Docs |-> Constructed(FALSE).updated]
  /\ updatedAll = [d \in Docs |-> Constructed(FALSE).updatedAll]
  /\ isLoaded = [d \in Docs |-> FALSE]
  /\ remote = RemoteDelete
  /\ inflight = <<>>
  /\ written = [d \in Docs |-> EmptyData]
  /\ ops = [d \in Docs |-> 0]
  /\ overlap = FALSE

(***************************************************************************)
(* FirestoreCollection: the document map (web/collection.ts 155-213,       *)
(* 262-312, 393-417; admin/firestore.ts has the same code).  A Document    *)
(* instance is named by the order in which it was constructed.             *)
(***************************************************************************)
\* the ids of a set as the query orders them
Ordered(ids) == SelectSeq(IdOrder, LAMBDA id : id \in ids)

\* _documents.get(id) ?? new this._ctor(ref, doc, true); _documents.set(...)
Bind(st, id) ==
  IF id \in DOMAIN st.documents THEN st
  ELSE [documents |-> With(st.documents, id, st.created + 1),
        created |-> st.created + 1]

\* applyDocs(docs) on the map and instance count st
RECURSIVE applyDocs(_, _)
applyDocs(st, docs) ==
  IF docs = <<>> THEN st ELSE applyDocs(Bind(st, Head(docs)), Tail(docs))

\* applyDocChanges in which a removed change empties the map
RECURSIVE applyDocChangesRemoveAll(_, _)
applyDocChangesRemoveAll(st, docChanges) ==
  IF docChanges = <<>> THEN st
  ELSE LET docChange == Head(docChanges)
           st2 == IF docChange.type \in {"added", "modified"}
                  THEN Bind(st, docChange.id)
                  ELSE [st EXCEPT !.documents = <<>>]
       IN  applyDocChangesRemoveAll(st2, Tail(docChanges))

\* applyDocChanges(docChanges)
RECURSIVE applyDocChanges(_, _)
applyDocChanges(st, docChanges) ==
  IF docChanges = <<>> THEN st
  ELSE LET docChange == Head(docChanges)
           st2 == IF docChange.type \in {"added", "modified"}
                  THEN Bind(st, docChange.id)
                  ELSE [st EXCEPT !.documents = Without(@, docChange.id)]
       IN  applyDocChanges(st2, Tail(docChanges))

InitCol ==
  /\ DocIdle /\ LiveIdle /\ QueueIdle /\ PureIdle
  /\ documents = <<>>
  /\ colLoaded = FALSE
  /\ query \in BOOLEAN
  /\ stored \in SUBSET Ids
  /\ created = 0
  /\ colWatch = FALSE
  /\ colListeners = 0
  /\ colSeen = {}
  /\ colOps = 0
  /\ colDirty = {}
  /\ ColLiveIdle
  /\ colRead = NoRead
  /\ storedData = [id \in Ids |-> 0]
  /\ docData = <<>>
  /\ last = Event("new", "col", "ok", Undefined, NoRequest)

\* the field values held after a step that leaves the map newDocs: a
\* Document the step constructed from a snapshot (new this._ctor(ref, doc,
\* true)) holds that snapshot's values snap[id], one it found in the map
\* holds what it held
Held(newDocs, snap) ==
  [id \in DOMAIN newDocs |->
     IF id \in DOMAIN documents /\ documents[id] = newDocs[id]
     THEN docData[id] ELSE snap[id]]

\* the field values set(id, data) is called with
SetData == 0

ColCalled == /\ colOps < MaxColOps
             /\ colOps' = colOps + 1

ColState == [documents |-> documents, created |-> created]

\* get that applies the result without clearing the map first
ColGetKeepsMap(cache) ==
  /\ ColCalled
  /\ IF cache /\ colLoaded
     THEN /\ last' = Event("colget", "col", "cached", cache, NoRequest)
          /\ UNCHANGED <<documents, created, colLoaded, colDirty>>
     ELSE IF ~query
     THEN /\ last' = Event("colget", "col", "noquery", cache, NoRequest)
          /\ UNCHANGED <<documents, created, colLoaded, colDirty>>
     ELSE LET st == applyDocs(ColState, Ordered(stored))
          IN  /\ documents' = st.documents
              /\ created' = st.created
              /\ colLoaded' = TRUE
              /\ UNCHANGED colDirty
              /\ last' = Event("colget", "col", "ok", cache, NoRequest)
  /\ UNCHANGED <<docAll, notCol, storedData, colRead,
                 query, stored, colWatch, colListeners, colSeen, colLive>>
  /\ docData' = Held(documents', storedData)

\* get(cache)
ColGet(cache) ==
  /\ ColCalled
  /\ IF cache /\ colLoaded
     THEN /\ last' = Event("colget", "col", "cached", cache, NoRequest)
          /\ UNCHANGED <<documents, created, colLoaded, colDirty>>
     ELSE IF ~query
     THEN /\ last' = Event("colget", "col", "noquery", cache, NoRequest)
          /\ UNCHANGED <<documents, created, colLoaded, colDirty>>
     ELSE LET st == applyDocs([documents |-> <<>>, created |-> created],
                              Ordered(stored))
          IN  /\ documents' = st.documents
              /\ created' = st.created
              /\ colLoaded' = TRUE
              /\ colDirty' = {}
              /\ last' = Event("colget", "col", "ok", cache, NoRequest)
  /\ UNCHANGED <<docAll, notCol, storedData, colRead,
                 query, stored, colWatch, colListeners, colSeen, colLive>>
  /\ docData' = Held(documents', storedData)

\* set(id, data): a new Document, saved, then put in the map
ColSet(id) ==
  /\ ColCalled
  /\ IF ~query
     THEN /\ last' = Event("colset", "col", "noreference", id, NoRequest)
          /\ UNCHANGED <<documents, created, stored, colDirty, storedData>>
     ELSE /\ documents' = With(documents, id, created + 1)
          /\ created' = created + 1
          /\ stored' = stored \cup {id}
          /\ storedData' = [storedData EXCEPT ![id] = SetData]
          /\ colDirty' = colDirty \ {id}
          /\ last' = Event("colset", "col", "ok", id, NoRequest)
  /\ UNCHANGED <<docAll, notCol, colRead,
                 query, colLoaded, colWatch, colListeners,
                 colSeen, colLive>>
  /\ docData' = Held(documents', storedData')

\* delete that drops the id from the map before the remote delete completes
ColDeleteEager(id, tx) ==
  /\ ColCalled
  /\ IF ~query
     THEN /\ last' = Event("coldelete", "col", "noreference",
                           [id |-> id, tx |-> tx], NoRequest)
          /\ UNCHANGED <<documents, stored, colDirty>>
     ELSE /\ documents' = Without(documents, id)
          /\ colDirty' = colDirty \ {id}
          /\ \/ /\ stored' = IF tx THEN stored ELSE stored \ {id}
                /\ last' = Event("coldelete", "col",
                                 IF tx THEN "queued" ELSE "ok",
                                 [id |-> id, tx |-> tx], NoRequest)
             \/ /\ ~tx
                /\ last' = Event("coldelete", "col", "rejected",
                                 [id |-> id, tx |-> tx], NoRequest)
                /\ UNCHANGED stored
  /\ UNCHANGED <<docAll, notCol, storedData, colRead,
                 query, colLoaded, created,
                 colWatch, colListeners, colSeen, colLive>>
  /\ docData' = Held(documents', storedData)

\* delete(id, transaction): the remote delete is queued on the transaction,
\* or awaited and then resolves or rejects
ColDelete(id, tx) ==
  /\ ColCalled
  /\ IF ~query
     THEN /\ last' = Event("coldelete", "col", "noreference",
                           [id |-> id, tx |-> tx], NoRequest)
          /\ UNCHANGED <<documents, stored, colDirty>>
     ELSE \/ /\ documents' = Without(documents, id)
             /\ colDirty' = colDirty \ {id}
             /\ stored' = IF tx THEN stored ELSE stored \ {id}
             /\ last' = Event("coldelete", "col",
                              IF tx THEN "queued" ELSE "ok",
                              [id |-> id, tx |-> tx], NoRequest)
          \/ /\ ~tx
             /\ last' = Event("coldelete", "col", "rejected",
                              [id |-> id, tx |-> tx], NoRequest)
             /\ UNCHANGED <<documents, stored, colDirty>>
  /\ UNCHANGED <<docAll, notCol, storedData, colRead,
                 query, colLoaded, created,
                 colWatch, colListeners, colSeen, colLive>>
  /\ docData' = Held(documents', storedData)

\* the caller changes a field of the Document held for id
ColEdit(id) ==
  /\ ColCalled
  /\ id \in DOMAIN documents
  /\ id \notin colDirty
  /\ colDirty' = colDirty \cup {id}
  /\ last' = Event("coledit", "col", "ok", id, NoRequest)
  /\ UNCHANGED <<docAll, notCol, storedData, docData, colRead,
                 documents, colLoaded, query, stored,
                 created, colWatch, colListeners, colSeen, colLive>>

\* one run of the transaction body: document.save(false, transaction) on
\* every Document of the map queues a write for each dirty one (update()
\* returns at once on an empty ledger) and runs its afterSave()
TransactionBody(dirty) == [queued |-> dirty, dirty |-> {}]

\* the writes queued by the last of n runs of the body
RECURSIVE QueuedByRun(_, _)
QueuedByRun(dirty, n) ==
  IF n = 1 THEN TransactionBody(dirty).queued
  ELSE QueuedByRun(TransactionBody(dirty).dirty, n - 1)

\* save() without a transaction: runTransaction runs the body, again after
\* each failed attempt, and commits the writes of its last run or gives up
ColSave(attempts, outcome) ==
  /\ ColCalled
  /\ LET dirty == colDirty \cap DOMAIN documents
         queued == QueuedByRun(dirty, attempts)
     IN  /\ colDirty' = colDirty \ dirty
         /\ last' = Event("colsave", "col", outcome,
                          [dirty |-> dirty, attempts |-> attempts,
                           written |-> IF outcome = "ok" THEN queued ELSE {}],
                          NoRequest)
  /\ UNCHANGED <<docAll, notCol, storedData, docData, colRead,
                 documents, colLoaded, query, stored,
                 created, colWatch, colListeners, colSeen, colLive>>

\* watch that replaces the registered listener, as the Document's does
ColWatchReplaces ==
  /\ ColCalled
  /\ IF ~query
     THEN /\ last' = Event("colwatch", "col", "noquery", Undefined, NoRequest)
          /\ UNCHANGED <<colWatch, colListeners, colSeen, colCallback,
                         colQueues>>
     ELSE /\ colWatch' = TRUE
          /\ colListeners' = IF colWatch THEN colListeners
                           ELSE colListeners + 1
          /\ colSeen' = {}
          /\ colCallback' = "user"
          /\ colQueues' = <<>>
          /\ last' = Event("colwatch", "col",
                           IF colWatch THEN "threw:watching" ELSE "ok",
                           Undefined, NoRequest)
  /\ UNCHANGED <<docAll, notCol, storedData, docData, colRead,
                 documents, colLoaded, query,
                 stored, created, colDirty, cached, colBacklog, colPc,
                 colFirst>>

\* watch(callback)
ColWatch ==
  /\ ColCalled
  /\ IF ~query
     THEN /\ last' = Event("colwatch", "col", "noquery", Undefined, NoRequest)
          /\ UNCHANGED <<colWatch, colListeners, colSeen, colCallback>>
     ELSE IF colWatch
     THEN /\ last' = Event("colwatch", "col", "threw:watching", Undefined,
                           NoRequest)
          /\ UNCHANGED <<colWatch, colListeners, colSeen, colCallback>>
     ELSE /\ colWatch' = TRUE
          /\ colListeners' = colListeners + 1
          /\ colSeen' = {}
          /\ colCallback' = "user"
          /\ last' = Event("colwatch", "col", "ok", Undefined, NoRequest)
  /\ UNCHANGED <<docAll, notCol, storedData, docData, colRead,
                 documents, colLoaded, query,
                 stored, created, colDirty, colQueues, cached, colBacklog,
                 colPc, colFirst>>

\* what unwatch() leaves: no listener, an empty fan-out list
Unwatched ==
  /\ colWatch' = FALSE
  /\ colListeners' = IF colWatch THEN colListeners - 1 ELSE colListeners
  /\ colSeen' = {}
  /\ colCallback' = "none"
  /\ colQueues' = <<>>

\* unwatch()
ColUnwatch ==
  /\ ColCalled
  /\ Unwatched
  /\ last' = Event("colunwatch", "col", "ok", Undefined, NoRequest)
  /\ UNCHANGED <<docAll, notCol, storedData, docData, colRead,
                 documents, colLoaded, query,
                 stored, created, colDirty, cached, colBacklog, colPc,
                 colFirst>>

\* `key = ...`: bound says whether the new key resolves to a path, matches
\* are the stored documents of the collection it names
ColSetKey(bound, matches) ==
  /\ ColCalled
  /\ query' = bound
  /\ stored' = IF bound THEN matches ELSE {}
  /\ Unwatched
  /\ last' = Event("colkey", "col", "ok",
                   [watching |-> colWatch, listed |-> colQueues], NoRequest)
  /\ UNCHANGED <<docAll, notCol, storedData, docData, colRead,
                 documents, colLoaded, created, colDirty,
                 cached, colBacklog, colPc, colFirst>>

\* a condition setter that keeps the listener while a query stays bound
ColSetConditionKeepsWatch(matches) ==
  /\ ColCalled
  /\ stored' = IF query THEN matches ELSE {}
  /\ IF query
     THEN UNCHANGED <<colWatch, colListeners, colSeen, colCallback, colQueues>>
     ELSE Unwatched
  /\ last' = Event("colcondition", "col", "ok",
                   [watching |-> colWatch, listed |-> colQueues], NoRequest)
  /\ UNCHANGED <<docAll, notCol, storedData, docData, colRead,
                 documents, colLoaded, query, created,
                 colDirty, cached, colBacklog, colPc, colFirst>>

\* `condition = ...`: initializeQuery() rebuilds the query from the
\* reference, which now matches other stored documents, and calls unwatch()
ColSetCondition(matches) ==
  /\ ColCalled
  /\ stored' = IF query THEN matches ELSE {}
  /\ Unwatched
  /\ last' = Event("colcondition", "col", "ok",
                   [watching |-> colWatch, listed |-> colQueues], NoRequest)
  /\ UNCHANGED <<docAll, notCol, storedData, docData, colRead,
                 documents, colLoaded, query, created,
                 colDirty, cached, colBacklog, colPc, colFirst>>

\* snapshot.docChanges(): what left the result, what entered it, and the
\* documents in it that another writer changed
DocChanges(modified) ==
  [i \in 1..Len(Ordered(colSeen \ stored)) |->
     [type |-> "removed", id |-> Ordered(colSeen \ stored)[i]]]
  \o [i \in 1..Len(Ordered(stored \ colSeen)) |->
        [type |-> "added", id |-> Ordered(stored \ colSeen)[i]]]
  \o [i \in 1..Len(Ordered(modified)) |->
        [type |-> "modified", id |-> Ordered(modified)[i]]]

\* this.toArray(): the Documents of the map
ToArray(docs) == [set |-> TRUE, docs |-> docs]

\* the store pushes a query snapshot to the listener; the callback that
\* snapshot() registered caches the array and enqueues it for every queue
\* of the fan-out list
ColPush(modified) ==
  /\ colWatch
  /\ ColCalled
  /\ modified \subseteq (stored \cap colSeen)
  /\ DocChanges(modified) # <<>>
  /\ LET st == applyDocChanges(ColState, DocChanges(modified))
         served == IF colCallback = "fanout" THEN Range(colQueues) ELSE {}
         woken == {c \in served : colPc[c] = "waiting"}
     IN  /\ documents' = st.documents
         /\ created' = st.created
         /\ colDirty' = colDirty \cap DOMAIN st.documents
         /\ cached' = IF colCallback = "fanout" THEN ToArray(st.documents)
                      ELSE cached
         /\ colBacklog' = [c \in Consumers |->
                             IF c \in served \ woken
                             THEN Append(colBacklog[c], ToArray(st.documents))
                             ELSE colBacklog[c]]
         /\ colPc' = [c \in Consumers |->
                        IF c \in woken THEN "yield" ELSE colPc[c]]
         /\ colFirst' = [c \in Consumers |->
                           IF c \in woken /\ ~colFirst[c].set
                           THEN ToArray(st.documents) ELSE colFirst[c]]
  /\ colRead' = IF ~colRead.pending THEN colRead
                ELSE [colRead EXCEPT
                        !.added = (@ \ (colSeen \ stored))
                                  \cup (stored \ colSeen),
                        !.removed = (@ \ (stored \ colSeen))
                                    \cup (colSeen \ stored)]
  /\ colLoaded' = TRUE
  /\ colSeen' = stored
  /\ last' = Event("colpush", "col", "ok", DocChanges(modified), NoRequest)
  /\ UNCHANGED <<docAll, notCol, storedData,
                 query, stored, colWatch, colListeners, colCallback,
                 colQueues>>
  /\ docData' = Held(documents', storedData)

\* `await queue.dequeue()` then `yield` for consumer c whose queue holds
\* backlog
ColAwaitDequeue(c, backlog) ==
  /\ colBacklog' = [colBacklog EXCEPT ![c] = IF backlog = <<>> THEN <<>>
                                             ELSE Tail(backlog)]
  /\ colPc' = [colPc EXCEPT ![c] = IF backlog = <<>> THEN "waiting"
                                   ELSE "yield"]
  /\ colFirst' = [colFirst EXCEPT ![c] = IF backlog # <<>> /\ ~@.set
                                         THEN Head(backlog) ELSE @]

\* the first next() on the collection's snapshot(): from the top to the
\* first suspension (prepare() of the class returns true)
ColSnapshotStart(c) ==
  /\ colPc[c] = "idle"
  /\ LET backlog == IF cached.set THEN <<cached>> ELSE <<>>
         arg == [cached |-> cached, documents |-> documents]
     IN  IF colWatch
         THEN /\ colQueues' = Append(colQueues, c)
              /\ ColAwaitDequeue(c, backlog)
              /\ last' = Event("colsnapshot", c, "joined", arg, NoRequest)
              /\ UNCHANGED <<colWatch, colListeners, colSeen, colCallback>>
         ELSE IF ~query
         THEN \* watch() returns without a listener: the loop is skipped,
              \* the queue spliced out again and unwatch() called
              /\ Unwatched
              /\ colBacklog' = [colBacklog EXCEPT ![c] = backlog]
              /\ colPc' = [colPc EXCEPT ![c] = "done"]
              /\ last' = Event("colsnapshot", c, "noquery", arg, NoRequest)
              /\ UNCHANGED colFirst
         ELSE /\ colWatch' = TRUE
              /\ colListeners' = colListeners + 1
              /\ colSeen' = {}
              /\ colCallback' = "fanout"
              /\ colQueues' = Append(colQueues, c)
              /\ ColAwaitDequeue(c, backlog)
              /\ last' = Event("colsnapshot", c, "watched", arg, NoRequest)
  /\ UNCHANGED <<docAll, notCol, storedData, docData, colRead,
                 documents, colLoaded, query, stored,
                 created, colOps, colDirty, cached>>

\* the caller asks for the next array: the generator resumes after its
\* yield; with the listener gone it leaves the loop and cleans up
ColNextCall(c) ==
  /\ colPc[c] = "yield"
  /\ IF colWatch
     THEN /\ ColAwaitDequeue(c, colBacklog[c])
          /\ last' = Event("colnext", c, "ok", Undefined, NoRequest)
          /\ UNCHANGED <<colWatch, colListeners, colSeen, colCallback,
                         colQueues>>
     ELSE /\ colPc' = [colPc EXCEPT ![c] = "done"]
          /\ IF c \in Range(colQueues)
                /\ SelectSeq(colQueues, LAMBDA x : x # c) # <<>>
             THEN /\ colQueues' = SelectSeq(colQueues, LAMBDA x : x # c)
                  /\ UNCHANGED <<colWatch, colListeners, colSeen, colCallback>>
             ELSE IF c \in Range(colQueues)
             THEN Unwatched
             ELSE UNCHANGED <<colWatch, colListeners, colSeen, colCallback,
                              colQueues>>
          /\ last' = Event("colnext", c, "done", Undefined, NoRequest)
          /\ UNCHANGED <<colBacklog, colFirst>>
  /\ UNCHANGED <<docAll, notCol, storedData, docData, colRead,
                 documents, colLoaded, query, stored,
                 created, colOps, colDirty, cached>>

\* another client adds or deletes a document the query matches, while
\* the collection has calls left to observe it
StoreChange(id) ==
  /\ colOps < MaxColOps
  /\ stored' = IF id \in stored THEN stored \ {id} ELSE stored \cup {id}
  /\ last' = Event("other", "other", "ok", Undefined, NoRequest)
  /\ UNCHANGED <<docAll, notCol, storedData, docData, colRead,
                 documents, colLoaded, query,
                 created, colWatch, colListeners, colSeen, colOps, colDirty,
                 colLive>>

NextCol ==
  \/ \E cache \in BOOLEAN : ColGet(cache)
  \/ \E id \in Ids : ColSet(id)
  \/ \E id \in Ids, tx \in BOOLEAN : ColDelete(id, tx)
  \/ \E id \in Ids : ColEdit(id)
  \/ \E attempts \in 1..MaxAttempts, outcome \in {"ok", "rejected"} :
       ColSave(attempts, outcome)
  \/ ColWatch
  \/ ColUnwatch
  \/ \E bound \in BOOLEAN, matches \in SUBSET Ids : ColSetKey(bound, matches)
  \/ \E matches \in SUBSET Ids : ColSetCondition(matches)
  \/ \E modified \in SUBSET Ids : ColPush(modified)
  \/ \E c \in Consumers : ColSnapshotStart(c)
  \/ \E c \in Consumers : ColNextCall(c)
  \/ \E id \in Ids : StoreChange(id)

SpecCol == InitCol /\ [][NextCol]_vars

(***************************************************************************)
(* get() racing the listener: the read that get() awaits is taken when it  *)
(* is issued and applied when it resolves (collection.ts 195-213)          *)
(***************************************************************************)
\* get(cache) up to `await getDocs(this.query)`
ColGetIssue(cache) ==
  /\ ColCalled
  /\ ~colRead.pending
  /\ IF cache /\ colLoaded
     THEN /\ last' = Event("colget", "col", "cached", cache, NoRequest)
          /\ UNCHANGED colRead
     ELSE IF ~query
     THEN /\ last' = Event("colget", "col", "noquery", cache, NoRequest)
          /\ UNCHANGED colRead
     ELSE /\ colRead' = [pending |-> TRUE, ids |-> stored,
                         data |-> storedData, added |-> {}, removed |-> {}]
          /\ last' = Event("colget", "col", "issued", cache, NoRequest)
  /\ UNCHANGED <<docAll, notCol, storedData, docData,
                 documents, colLoaded, query, stored,
                 created, colWatch, colListeners, colSeen, colDirty, colLive>>

\* the read resolves: get() clears the map and applies the documents read
ColGetResolve ==
  /\ colRead.pending
  /\ LET st == applyDocs([documents |-> <<>>, created |-> created],
                         Ordered(colRead.ids))
     IN  /\ documents' = st.documents
         /\ created' = st.created
  /\ colLoaded' = TRUE
  /\ colDirty' = {}
  /\ colRead' = NoRead
  /\ last' = Event("colread", "col", "ok", colRead, NoRequest)
  /\ UNCHANGED <<docAll, notCol, storedData,
                 query, stored, colWatch, colListeners, colSeen, colOps,
                 colLive>>
  /\ docData' = Held(documents', colRead.data)

NextColRace ==
  \/ \E cache \in BOOLEAN : ColGetIssue(cache)
  \/ ColGetResolve
  \/ ColWatch
  \/ ColUnwatch
  \/ \E modified \in SUBSET Ids : ColPush(modified)
  \/ \E id \in Ids : StoreChange(id)

SpecColRace == InitCol /\ [][NextColRace]_vars

(***************************************************************************)
(* The listeners the store holds for one Document and one collection that  *)
(* are watched, subscribed to and rebound side by side (document.ts        *)
(* 505-565, collection.ts 338-441)                                         *)
(***************************************************************************)
InitListeners ==
  /\ reference \in [Docs -> BOOLEAN]
  /\ exist = [d \in Docs |-> TRUE]
  /\ data = [d \in Docs |-> Constructed(TRUE).data]
  /\ updated = [d \in Docs |-> Constructed(TRUE).updated]
  /\ updatedAll = [d \in Docs |-> Constructed(TRUE).updatedAll]
  /\ isLoaded = [d \in Docs |-> FALSE]
  /\ remote = RemoteDelete
  /\ inflight = <<>>
  /\ written = [d \in Docs |-> EmptyData]
  /\ ops = [d \in Docs |-> 0]
  /\ overlap = FALSE
  /\ LiveIdle /\ QueueIdle /\ PureIdle
  /\ documents = <<>>
  /\ colLoaded = FALSE
  /\ query \in BOOLEAN
  /\ stored = {"a"}
  /\ created = 0
  /\ colWatch = FALSE
  /\ colListeners = 0
  /\ colSeen = {}
  /\ colOps = 0
  /\ colDirty = {}
  /\ ColLiveIdle
  /\ colRead = NoRead
  /\ storedData = [id \in Ids |-> 0]
  /\ docData = <<>>
  /\ last = Event("new", "none", "ok", Undefined, NoRequest)

NextListeners ==
  \/ \E d \in Docs : Watch(d, "user")
  \/ \E d \in Docs : Unwatch(d)
  \/ \E d \in Docs, c \in Consumers : SnapshotStart(d, c)
  \/ \E c \in Consumers : NextCall(c)
  \/ ColWatch
  \/ ColUnwatch
  \/ \E bound \in BOOLEAN : ColSetKey(bound, {"a"})
  \/ ColSetCondition({"a"})
  \/ ColPush({})
  \/ \E c \in Consumers : ColSnapshotStart(c)
  \/ \E c \in Consumers : ColNextCall(c)

SpecListeners == InitListeners /\ [][NextListeners]_vars

(***************************************************************************)
(* The field values of the Documents in the map, with another client       *)
(* changing the stored documents (collection.ts 155-178)                   *)
(***************************************************************************)
\* another client changes the field values of a stored document
StoreModify(id) ==
  /\ colOps < MaxColOps
  /\ id \in stored
  /\ storedData[id] < MaxVersion
  /\ storedData' = [storedData EXCEPT ![id] = @ + 1]
  /\ last' = Event("other", "other", "ok", Undefined, NoRequest)
  /\ UNCHANGED <<docAll, notCol, docData, colRead, documents, colLoaded,
                 query, stored, created, colWatch, colListeners, colSeen,
                 colOps, colDirty,
                 colLive>>

NextColData ==
  \/ \E cache \in BOOLEAN : ColGet(cache)
  \/ ColWatch
  \/ \E modified \in SUBSET Ids : ColPush(modified)
  \/ \E id \in Ids : StoreChange(id)
  \/ \E id \in Ids : StoreModify(id)

SpecColData == InitCol /\ [][NextColData]_vars

(***************************************************************************)
(* One value serialized for the store and read back (document.ts 260-342)  *)
(***************************************************************************)
\* primitives and dates
Leaves == {Num(1), Null, Undefined, DateV(1), DateV(1500)}

ArraysOf(elems) ==
  {ArrV(seq) : seq \in UNION {[1..n -> elems] : n \in 0..MaxArrayLen}}

ObjectsOf(elems) ==
  {ObjV(props) : props \in UNION {[names -> elems] :
                                   names \in SUBSET {"a", "d"}}}

\* arrays and plain mappings of leaves, and arrays and plain mappings of
\* those
Flat == Leaves \cup ArraysOf(Leaves) \cup ObjectsOf(Leaves)
Nested == Flat \cup ArraysOf(Flat) \cup ObjectsOf(Flat)

InitCodec ==
  /\ DocIdle /\ LiveIdle /\ QueueIdle /\ ColIdle
  /\ call \in [fn : {"codec"}, value : Nested, stored : {Undefined},
               back : {Undefined}, stage : {"called"}]
  /\ last = Event("new", "none", "ok", Undefined, NoRequest)

\* serializeValue(value): what is handed to the store
Serialize ==
  /\ call.stage = "called"
  /\ call' = [call EXCEPT !.stored = serializeValue(call.value),
                          !.stage = "serialized"]
  /\ last' = Event("serialize", "none", "ok", Undefined, NoRequest)
  /\ UNCHANGED <<docAll, liveVars, queueVars, colVars>>

\* unserializeValue(stored): what the document holds after reading it back
Unserialize ==
  /\ call.stage = "serialized"
  /\ call' = [call EXCEPT !.back = unserializeValue(call.stored),
                          !.stage = "unserialized"]
  /\ last' = Event("unserialize", "none", "ok", Undefined, NoRequest)
  /\ UNCHANGED <<docAll, liveVars, queueVars, colVars>>

NextCodec == Serialize \/ Unserialize

SpecCodec == InitCodec /\ [][NextCodec]_vars

(***************************************************************************)
(* Keys and paths (shared/utils.ts 56-122).  A string is the sequence of   *)
(* its characters; a structured key maps field names to strings.           *)
(***************************************************************************)
\* \w of the placeholder pattern, over the characters used here
IsWord(c) == c \in {"a", "t", "u", "v"}

\* str.split('/').filter((p) => p)
RECURSIVE SplitParts(_, _, _)
SplitParts(str, part, parts) ==
  IF str = <<>>
  THEN IF part = <<>> THEN parts ELSE Append(parts, part)
  ELSE IF Head(str) = "/"
  THEN SplitParts(Tail(str), <<>>,
                  IF part = <<>> THEN parts ELSE Append(parts, part))
  ELSE SplitParts(Tail(str), Append(part, Head(str)), parts)

Split(str) == SplitParts(str, <<>>, <<>>)

\* template.startsWith('{') && template.endsWith('}')
IsPlaceholder(template) ==
  /\ template # <<>>
  /\ Head(template) = "{"
  /\ template[Len(template)] = "}"

\* template.slice(1, -1)
KeyName(template) == SubSeq(template, 2, Len(template) - 1)

\* parseKey(path, pathTemplate): what it returns, or the error it throws
parseKey(path, pathTemplate) ==
  IF path = Undefined
  THEN [threw |-> "TypeError", key |-> <<>>]
  ELSE LET pathParts == Split(path.v)
           templateParts == Split(pathTemplate)
           named == {i \in 1..Len(templateParts) :
                       IsPlaceholder(templateParts[i])}
           names == {KeyName(templateParts[i]) : i \in named}
           lastOf(name) == CHOOSE i \in named :
                             /\ KeyName(templateParts[i]) = name
                             /\ \A j \in named :
                                  KeyName(templateParts[j]) = name => j <= i
       IN  IF pathTemplate = <<>>
           THEN [threw |-> "none", key |-> pathParts]
           ELSE IF Len(templateParts) # Len(pathParts)
           THEN [threw |-> "length mismatch", key |-> <<>>]
           ELSE IF \E i \in (1..Len(templateParts)) \ named :
                     templateParts[i] # pathParts[i]
           THEN [threw |-> "segment mismatch", key |-> <<>>]
           ELSE [threw |-> "none",
                 key |-> [name \in names |-> StrV(pathParts[lastOf(name)])]]

\* the first position from i on that holds no word character
RECURSIVE WordEnd(_, _)
WordEnd(str, i) ==
  IF i > Len(str) \/ ~IsWord(str[i]) THEN i ELSE WordEnd(str, i + 1)

\* position i of the template starts a match of /\{(\w+)\}/
MatchesAt(pathTemplate, i) ==
  /\ pathTemplate[i] = "{"
  /\ WordEnd(pathTemplate, i + 1) > i + 1
  /\ WordEnd(pathTemplate, i + 1) <= Len(pathTemplate)
  /\ pathTemplate[WordEnd(pathTemplate, i + 1)] = "}"

\* value !== undefined ? String(value) : ''
Substitute(key, keyName) ==
  IF keyName \in DOMAIN key THEN key[keyName].v ELSE <<>>

\* pathTemplate.replace that stops after its first match
RECURSIVE replaceFirst(_, _, _)
replaceFirst(pathTemplate, key, i) ==
  IF i > Len(pathTemplate) THEN <<>>
  ELSE IF MatchesAt(pathTemplate, i)
  THEN Substitute(key, SubSeq(pathTemplate, i + 1,
                              WordEnd(pathTemplate, i + 1) - 1))
       \o SubSeq(pathTemplate, WordEnd(pathTemplate, i + 1) + 1,
                 Len(pathTemplate))
  ELSE <<pathTemplate[i]>> \o replaceFirst(pathTemplate, key, i + 1)

\* pathTemplate.replace(/\{(\w+)\}/g, ...) from position i on
RECURSIVE replace(_, _, _)
replace(pathTemplate, key, i) ==
  IF i > Len(pathTemplate) THEN <<>>
  ELSE IF MatchesAt(pathTemplate, i)
  THEN Substitute(key, SubSeq(pathTemplate, i + 1,
                              WordEnd(pathTemplate, i + 1) - 1))
       \o replace(pathTemplate, key, WordEnd(pathTemplate, i + 1) + 1)
  ELSE <<pathTemplate[i]>> \o replace(pathTemplate, key, i + 1)

\* buildPath(key, pathTemplate) for a structured key
buildPath(key, pathTemplate) ==
  IF pathTemplate = <<>> THEN Undefined
  ELSE StrV(replace(pathTemplate, key, 1))

\* 'test/{u}', '{u}/{v}', 't{u}' and the empty template
Templates ==
  { <<"t", "/", "{", "u", "}">>,
    <<"{", "u", "}", "/", "{", "v", "}">>,
    <<"t", "{", "u", "}">>,
    <<>> }

\* the strings a key field holds
RECURSIVE Strings(_)
Strings(n) ==
  IF n = 0 THEN {<<>>}
  ELSE Strings(n - 1)
       \cup {Append(str, c) : str \in Strings(n - 1), c \in {"a", "/"}}

\* structured keys whose fields are all strings
Keys ==
  UNION {[names -> {StrV(str) : str \in Strings(MaxKeyLen)}] :
           names \in SUBSET {<<"u">>, <<"v">>}}

InitKey ==
  /\ DocIdle /\ LiveIdle /\ QueueIdle /\ ColIdle
  /\ call \in [fn : {"key"}, pathTemplate : Templates, key : Keys,
               path : {Undefined}, parsed : {Undefined},
               stage : {"called"}]
  /\ last = Event("new", "none", "ok", Undefined, NoRequest)

\* const path = buildPath(key, pathTemplate)
BuildPath ==
  /\ call.stage = "called"
  /\ call' = [call EXCEPT !.path = buildPath(call.key, call.pathTemplate),
                          !.stage = "built"]
  /\ last' = Event("buildPath", "none", "ok", Undefined, NoRequest)
  /\ UNCHANGED <<docAll, liveVars, queueVars, colVars>>

\* parseKey(path, pathTemplate)
ParseKey ==
  /\ call.stage = "built"
  /\ call' = [call EXCEPT !.parsed = parseKey(call.path, call.pathTemplate),
                          !.stage = "parsed"]
  /\ last' = Event("parseKey", "none",
                   IF parseKey(call.path, call.pathTemplate).threw = "none"
                   THEN "ok" ELSE "threw", Undefined, NoRequest)
  /\ UNCHANGED <<docAll, liveVars, queueVars, colVars>>

NextKey == BuildPath \/ ParseKey

SpecKey == InitKey /\ [][NextKey]_vars

(***************************************************************************)
(* One AsyncQueue with a producer and consumers calling it in any order    *)
(***************************************************************************)
InitQueue ==
  /\ DocIdle /\ LiveIdle /\ ColIdle /\ PureIdle
  /\ QueueIdle
  /\ last = Event("new", "queue", "ok", Undefined, NoRequest)

\* the producer calls enqueue with the next item
Enqueue ==
  /\ nEnq < MaxEnq
  /\ LET r == enqueue(aq, nEnq + 1)
     IN  /\ aq' = r.q
         /\ results' = IF r.resolved # 0
                       THEN [results EXCEPT ![r.resolved] = r.item]
                       ELSE results
         /\ last' = Event("enqueue", "queue",
                          IF r.resolved # 0 THEN "resolved" ELSE "buffered",
                          Undefined, NoRequest)
  /\ nEnq' = nEnq + 1
  /\ UNCHANGED <<docAll, notQueue, lostItems, lostWaiters>>

\* a consumer calls dequeue: the call is numbered by its place among the calls
Dequeue ==
  /\ Len(results) < MaxDeq
  /\ LET r == dequeue(aq, Len(results) + 1)
     IN  /\ aq' = r.q
         /\ results' = Append(results, r.item)
         /\ last' = Event("dequeue", "queue",
                          IF r.item # 0 THEN "resolved" ELSE "pending",
                          Undefined, NoRequest)
  /\ UNCHANGED <<docAll, notQueue, nEnq, lostItems, lostWaiters>>

Clear ==
  /\ aq' = clear(aq)
  /\ lostItems' = lostItems \cup Range(aq.queue)
  /\ lostWaiters' = lostWaiters \cup Range(aq.resolvers)
  /\ last' = Event("clear", "queue", "ok", Undefined, NoRequest)
  /\ UNCHANGED <<docAll, notQueue, results, nEnq>>

NextQueue == Enqueue \/ Dequeue \/ Clear

SpecQueue == InitQueue /\ [][NextQueue]_vars

(***************************************************************************)
(* Properties                                                              *)
(***************************************************************************)
Issued(ev) == ev.res \in {"issued", "queued"}

\* the payload that holds exactly the fields of w, each serialized
PayloadOf(w) == [key \in DOMAIN w |-> serializeValue(w[key])]

OnlyDefined(w) == \A key \in DOMAIN w : w[key] # Undefined

\* C1: on a document believed to exist with no full overwrite pending, a
\* save() that follows writes of defined values issues exactly one update,
\* whose payload holds exactly the fields written since the ledger was last
\* cleared (by a save or a load), each with the value written last.
C1_UpdatePayload ==
  [][\A d \in Docs :
       ( /\ last'.op = "save" /\ last'.doc = d /\ last'.arg = FALSE
         /\ last'.res # "threw:beforeSave"
         /\ reference[d] /\ exist[d] /\ ~updatedAll[d]
         /\ written[d] # EmptyData /\ OnlyDefined(written[d]) )
       => /\ Issued(last')
          /\ last'.req.kind = "update"
          /\ last'.req.payload = PayloadOf(written[d])
          /\ inflight' = Append(inflight, last'.req)]_vars

\* a save() has issued an update whose payload is a date written to a field
\* that held something else before
C1_Witness ==
  /\ last.op = "save" /\ last.res = "issued" /\ last.req.kind = "update"
  /\ \E key \in DOMAIN last.req.payload :
       /\ last.req.payload[key] = TimestampV(1)
       /\ written[last.doc][key] = DateV(1)
       /\ updated[last.doc][key] = EmptyObj

\* what save(force) sends when beforeSave() passes, by the dispatcher's rule
\* as stated: an update exactly when the document is believed to exist, force
\* is false and no full overwrite is pending, else a set of the whole data
SaveStep(d) ==
  /\ last'.op = "save" /\ last'.doc = d
  /\ last'.res # "threw:beforeSave"
  /\ reference[d]

SendsSet(d) ==
  /\ Issued(last')
  /\ last'.req.kind = "set"
  /\ last'.req.payload = serialize(data[d], Undefined)
  /\ inflight' = Append(inflight, last'.req)

SendsUpdate(d) ==
  /\ Issued(last')
  /\ last'.req.kind = "update"
  /\ last'.req.payload = serialize(data[d], updated[d])
  /\ inflight' = Append(inflight, last'.req)

\* C2 as stated: save(force, tx) issues a partial update exactly when the
\* document is believed to exist, force is false and no full overwrite is
\* pending, and a full set of the whole data in every other case.
C2_AsStated ==
  [][\A d \in Docs :
       SaveStep(d) =>
         IF exist[d] /\ ~last'.arg /\ ~updatedAll[d]
         THEN SendsUpdate(d) ELSE SendsSet(d)]_vars

\* C2 amended: with beforeSave() passing, save(force, tx) issues a partial
\* update exactly when the document is believed to exist, force is false, no
\* full overwrite is pending and the ledger is not empty; with the first
\* three true and the ledger empty it issues no remote call; in every other
\* case it issues a full set of the whole data.
C2_SaveDispatch ==
  [][\A d \in Docs :
       SaveStep(d) =>
         IF exist[d] /\ ~last'.arg /\ ~updatedAll[d]
         THEN IF DOMAIN updated[d] # {}
              THEN SendsUpdate(d)
              ELSE last'.res = "noop" /\ inflight' = inflight
         ELSE SendsSet(d)]_vars

\* a forced save of a document with a non-empty ledger has issued a set, and
\* so has a save of one with a full overwrite pending
C2_Witness ==
  /\ last.op = "save" /\ Issued(last) /\ last.req.kind = "set"
  /\ last.arg = TRUE
  /\ last.req.ledger # {}
  /\ last.req.payload # EmptyData

\* what the store may hold when a write reaches it
StoredValues == {serializeValue(value) : value \in Values}
RemoteStates ==
  {RemoteDelete} \cup
  {RemoteSet(p) : p \in UNION {[S -> StoredValues] : S \in SUBSET Fields}}

\* the write leaves every field outside its ledger as stored, whatever the
\* store holds when it is applied
KeepsOtherFields(req) ==
  \A rem \in RemoteStates :
    Accepts(rem, req) =>
      \A key \in Fields \ req.ledger :
        Prop(Apply(rem, req).fields, key) = Prop(rem.fields, key)

\* C3 as stated: a default save() of an existing, loaded Document changes
\* only the remote fields named in its ledger.
C3_AsStated ==
  [][\A d \in Docs :
       ( /\ last'.op = "save" /\ last'.doc = d /\ last'.arg = FALSE
         /\ last'.res = "issued"
         /\ exist[d] /\ isLoaded[d] )
       => KeepsOtherFields(last'.req)]_vars

\* C3 amended: a default save() of an existing, loaded Document with no full
\* overwrite pending changes only the remote fields named in its ledger:
\* every other remote field keeps the value it had immediately before the
\* write, whoever wrote it, and the payload's fields are stored.
C3_UpdateFrame ==
  [][\A d \in Docs :
       /\ ( /\ last'.op = "save" /\ last'.doc = d /\ last'.arg = FALSE
            /\ last'.res = "issued"
            /\ exist[d] /\ isLoaded[d] /\ ~updatedAll[d] )
          => /\ last'.req.kind = "update"
             /\ KeepsOtherFields(last'.req)
       /\ ( /\ last'.op = "await" /\ last'.res = "ok" /\ last'.doc = d
            /\ last'.req.op = "save" /\ last'.req.arg = FALSE
            /\ last'.req.kind = "update" )
          => /\ remote'.exists
             /\ \A key \in Fields \ last'.req.ledger :
                  Prop(remote'.fields, key) = Prop(remote.fields, key)
             /\ \A key \in DOMAIN last'.req.payload :
                  last'.req.payload[key] # DELETE_FIELD
                    => Prop(remote'.fields, key) = last'.req.payload[key]]_vars

\* a loaded document's update of `name` has completed, and the `age` that
\* another client wrote meanwhile, which differs from the local one, is
\* still stored
C3_Witness ==
  /\ last.op = "await" /\ last.res = "ok"
  /\ last.req.op = "save" /\ last.req.arg = FALSE /\ last.req.kind = "update"
  /\ last.req.ledger = {"name"}
  /\ isLoaded[last.doc]
  /\ "age" \in DOMAIN data[last.doc]
  /\ data[last.doc]["age"] = DateV(1)
  /\ Prop(remote.fields, "age") = EmptyObj
  /\ Prop(remote.fields, "name") = last.req.payload["name"]

\* a get() that fetched: neither the cache shortcut nor a failure
Fetched(d) == last.op = "get" /\ last.doc = d /\ last.res = "ok"

C5_GetReplaces ==
  \A d \in Docs :
    Fetched(d) => /\ exist[d] = remote.exists
                  /\ remote.exists => data[d] = unserialize(remote.fields)

\* the awaited write of a set()/update() call has resolved
Saved(d) ==
  /\ last.op = "await" /\ last.res = "ok" /\ last.doc = d
  /\ last.req.kind \in {"set", "update"}

\* what a freshly constructed instance holds after get() on the same path
FreshGet == setDataFromSnapshot(Constructed(FALSE).data, remote)

\* C6: after a non-transactional save/set/update resolves, the instance has
\* an empty ledger, no full-overwrite flag and exist true, and a fresh
\* instance loading the same path sees exist true and the saved values.
C6_AfterSave ==
  \A d \in Docs :
    Saved(d) =>
      /\ updated[d] = EmptyData
      /\ ~updatedAll[d]
      /\ ~isDirty(d)
      /\ exist[d]
      /\ FreshGet.exist
      /\ \A key \in DOMAIN last.req.payload :
           IF last.req.payload[key] = DELETE_FIELD
           THEN key \notin DOMAIN FreshGet.data
           ELSE /\ key \in DOMAIN FreshGet.data
                /\ FreshGet.data[key] = unserializeValue(last.req.payload[key])
      /\ last.req.kind = "set" =>
           FreshGet.data = unserialize(last.req.payload)

\* an update carrying a Date has resolved on a document that was dirty
C6_Witness ==
  \E d \in Docs :
    /\ Saved(d) /\ last.req.kind = "update"
    /\ \E key \in DOMAIN last.req.payload :
         /\ last.req.payload[key] = TimestampV(1)
         /\ FreshGet.data[key] = DateV(1)
    /\ exist[d] /\ ~isDirty(d)

\* the call of the step threw out of beforeSave()
HookThrew(d) == last'.doc = d /\ last'.res = "threw:beforeSave"

C8_RejectKeeps ==
  [][\A d \in Docs :
       ( /\ last'.op = "await" /\ last'.res = "rejected" /\ last'.doc = d
         /\ last'.req.kind \in {"set", "update"} )
       => /\ \E i \in 1..Len(inflight) :
               /\ inflight[i] = last'.req
               /\ inflight' = Remove(inflight, i)
          /\ remote' = remote
          /\ updated'[d] = updated[d] /\ updatedAll'[d] = updatedAll[d]
          /\ exist'[d] = exist[d] /\ data'[d] = data[d]
          /\ isDirty(d)' = isDirty(d)]_vars

\* an update was rejected and the document still holds its tracked change
C8_Witness ==
  \E d \in Docs :
    /\ last.op = "await" /\ last.res = "rejected" /\ last.doc = d
    /\ last.req.kind = "update"
    /\ DOMAIN updated[d] = last.req.ledger
    /\ serialize(data[d], updated[d]) = last.req.payload
    /\ isDirty(d)

\* C9: deleting a field on a document with exist true makes the next update
\* payload map it to the delete sentinel; on a document with exist false the
\* field is removed locally and is absent from the next payload.
C9_DeleteField ==
  [][\A d \in Docs :
       ( /\ last'.op = "setValue" /\ last'.doc = d
         /\ last'.arg.value = Undefined )
       => LET key == last'.arg.key
              payload == serialize(data'[d], updated'[d])
          IN  IF exist[d]
              THEN /\ key \in DOMAIN payload
                   /\ payload[key] = DELETE_FIELD
              ELSE /\ key \notin DOMAIN data'[d]
                   /\ key \notin DOMAIN payload
                   /\ key \notin DOMAIN serialize(data'[d], Undefined)]_vars

\* the setData call of the step: its incoming object (cloned or
\* unserialized) and its updatedAll argument
SetDataCall(d) ==
  IF last'.op = "get" /\ last'.doc = d /\ last'.res = "ok"
  THEN [called |-> TRUE,
        incoming |-> IF remote.exists THEN unserialize(remote.fields)
                     ELSE defaultData,
        updatedAll |-> ~remote.exists]
  ELSE IF /\ last'.op = "set" /\ last'.doc = d /\ last'.arg # Undefined
          /\ last'.res \in {"threw:beforeSave", "issued"}
  THEN [called |-> TRUE, incoming |-> last'.arg, updatedAll |-> TRUE]
  ELSE [called |-> FALSE, incoming |-> EmptyData, updatedAll |-> FALSE]

\* C10 as stated: setData with an incoming object structurally equal to the
\* current data leaves the ledger empty and the full-overwrite flag not set.
C10_AsStated ==
  [][\A d \in Docs :
       (SetDataCall(d).called /\ SetDataCall(d).incoming = data[d])
       => /\ updated'[d] = EmptyData
          /\ ~updatedAll'[d]]_vars

\* C10 amended: setData with an incoming object structurally equal to the
\* current data keeps the data, leaves the ledger empty and leaves the
\* full-overwrite flag equal to its updatedAll argument: not set when
\* loading an existing snapshot, set for set(data) and for a load that
\* finds no document.
C10_EqualSetData ==
  [][\A d \in Docs :
       (SetDataCall(d).called /\ SetDataCall(d).incoming = data[d])
       => /\ data'[d] = data[d]
          /\ updated'[d] = EmptyData
          /\ updatedAll'[d] = SetDataCall(d).updatedAll]_vars

\* the first call on a new instance was a get() that found no document: the
\* default data it compared was equal to the data held
C10_Witness ==
  \E d \in Docs :
    /\ ops[d] = 1 /\ Fetched(d) /\ ~remote.exists
    /\ data[d] = defaultData /\ updated[d] = EmptyData /\ updatedAll[d]

\* C11: delete() issues no remote call and changes nothing when exist is
\* false; when exist is true (and the path is resolved) it issues one remote
\* delete, queued on the transaction or batch if one is given, and sets
\* exist to false, leaving data, ledger, full-overwrite flag and isLoaded
\* unchanged.
C11_Delete ==
  [][\A d \in Docs :
       (last'.op = "delete" /\ last'.doc = d) =>
         /\ remote' = remote
         /\ data'[d] = data[d] /\ updated'[d] = updated[d]
         /\ updatedAll'[d] = updatedAll[d] /\ isLoaded'[d] = isLoaded[d]
         /\ IF ~exist[d]
            THEN /\ inflight' = inflight
                 /\ exist'[d] = exist[d]
                 /\ ~Issued(last')
            ELSE IF reference[d]
            THEN /\ Issued(last')
                 /\ last'.req.kind = "delete" /\ last'.req.doc = d
                 /\ inflight' = Append(inflight, last'.req)
                 /\ last'.req.tx = (last'.res = "queued")
                 /\ ~exist'[d]
            ELSE /\ last'.res = "threw:reference"
                 /\ inflight' = inflight /\ exist'[d] = exist[d]]_vars

\* a loaded document with a tracked change has been deleted: exist is false
\* and its data and ledger are still there
C11_Witness ==
  \E d \in Docs :
    /\ last.op = "delete" /\ last.doc = d /\ last.res = "issued"
    /\ ~exist[d] /\ isLoaded[d]
    /\ data[d] # EmptyData /\ updated[d] # EmptyData

\* C12: watch() on a Document whose previous watch is still active fails
\* with an 'already watching' error, and the listener registered before
\* stays registered.
C12_DuplicateWatch ==
  [][\A d \in Docs :
       (last'.op = "watch" /\ last'.doc = d /\ watching.id # 0)
       => /\ last'.res = "threw:watching"
          /\ watching' = watching]_vars

\* a push to the registered listener
Pushed(d) == last'.op = "push" /\ last'.doc = d

\* C13: while a watch is active every pushed snapshot updates the local
\* exist flag and data, and the caller's callback is invoked exactly once
\* for a snapshot in which the document exists and not at all for one in
\* which it does not; a cancelled listener receives nothing.
C13_WatchPush ==
  [][\A d \in Docs :
       Pushed(d) =>
         /\ watching.id # 0 /\ last'.arg.id = watching.id
         /\ exist'[d] = remote.exists
         /\ remote.exists => data'[d] = unserialize(remote.fields)
         /\ watching.callback = "user" =>
              (last'.res = "callback") = remote.exists]_vars

Active(c) == pc[c] \in {"waiting", "yield"}

\* C14: every pushed update (of a document that exists) that arrives while a
\* snapshot() consumer is active is handed to that consumer, once and behind
\* the items it was handed before, whether the watch was started by the
\* first snapshot() call or by an earlier watch().
C14_FanOut ==
  [][\A d \in Docs, c \in Consumers :
       (Pushed(d) /\ remote.exists /\ Active(c)) =>
         IF pc[c] = "waiting"
         THEN /\ pc'[c] = "yield"
              /\ got'[c] = Append(got[c], last'.arg.item)
         ELSE /\ queues'[c].queue = Append(queues[c].queue, last'.arg.item)
              /\ got'[c] = got[c]]_vars

\* C15: when the last active consumer of snapshot() leaves its loop, its
\* queue is removed from the fan-out list and the watch is cancelled.
C15_LastConsumerLeaves ==
  [][\A c \in Consumers :
       ( /\ last'.op = "return" /\ last'.doc = c
         /\ \A other \in Consumers \ {c} : ~Active(other) )
       => /\ c \notin Range(snapshotQueues')
          /\ watching'.id = 0]_vars

\* C16: once the watch is torn down, every snapshot() sequence that was
\* active on the instance eventually ends, a consumer suspended in dequeue
\* included.
C16_SequencesEnd ==
  \A c \in Consumers :
    (watching.id = 0 /\ Active(c)) ~> (pc[c] \in {"done", "returned"})

\* C19: when Collection.get() with a bound query, not short-circuited by the
\* cache flag, resolves, the ids in the local map are exactly the ids of the
\* query result and isLoaded is true; two get() calls in a row with nothing
\* in between yield the same id set.
C19_GetReplacesMap ==
  [][(last'.op = "colget" /\ last'.res = "ok") =>
       /\ DOMAIN documents' = stored
       /\ colLoaded'
       /\ (last.op = "colget" /\ last.res = "ok") =>
            DOMAIN documents' = DOMAIN documents]_vars

\* a get() has resolved on a collection that had constructed more instances
\* before than the query now returns
C19_Witness ==
  /\ last.op = "colget" /\ last.res = "ok" /\ last.arg = FALSE
  /\ DOMAIN documents = stored /\ stored # {}
  /\ created > 2 * Cardinality(stored)
  /\ colLoaded

\* the ids a push names in a change of the given types
Named(docChanges, types) ==
  {docChanges[i].id : i \in {j \in 1..Len(docChanges) :
                               docChanges[j].type \in types}}

\* C20: applying a live-push change of type 'removed' for an id present in
\* the local map removes exactly that id: every other id stays in the map,
\* bound to the same Document instance as before.
C20_RemovedChange ==
  [][last'.op = "colpush" =>
       /\ \A id \in DOMAIN documents :
            IF id \in Named(last'.arg, {"removed"})
            THEN id \notin DOMAIN documents'
            ELSE id \in DOMAIN documents' /\ documents'[id] = documents[id]
       /\ Named(last'.arg, {"added", "modified"}) = {} =>
            documents' = [id \in (DOMAIN documents)
                                   \ Named(last'.arg, {"removed"}) |->
                            documents[id]]]_vars

\* a push has removed one id and left another bound to its instance
C20_Witness ==
  /\ last.op = "colpush"
  /\ Len(last.arg) = 1 /\ last.arg[1].type = "removed"
  /\ last.arg[1].id \notin DOMAIN documents
  /\ DOMAIN documents # {}

\* C26: get(), set(), save(), delete() and watch() called on a Document with
\* no resolved reference each throw the missing-reference error, issue no
\* remote call and leave data, the ledger, the full-overwrite flag, exist and
\* isLoaded as they were; no listener is registered either.
C26_NoReference ==
  [][\A d \in Docs :
       ( /\ last'.doc = d /\ ~reference[d]
         /\ last'.op \in {"get", "set", "save", "delete", "watch"} )
       => /\ last'.res = "threw:reference"
          /\ last'.req = NoRequest
          /\ UNCHANGED <<docVars, inflight, remote, watching, listeners>>]_vars

\* set(data) has thrown on a Document without reference that holds tracked
\* local changes other than the data passed
C26_Witness ==
  \E d \in Docs :
    /\ ~reference[d]
    /\ last.op = "set" /\ last.doc = d /\ last.res = "threw:reference"
    /\ last.arg # Undefined /\ last.arg # data[d]
    /\ updated[d] # EmptyData

\* the writes queued on the transaction or batch for Document d
QueuedFor(d) ==
  {i \in 1..Len(inflight) : /\ inflight[i].tx /\ inflight[i].doc = d
                            /\ inflight[i].kind \in {"set", "update"}}

\* C29: a Document saved through a transaction or write batch has its ledger
\* and full-overwrite flag cleared only once the transaction or batch has
\* committed: when its write has just been queued it is still dirty with
\* the ledger the write was built from, and so it is when the commit fails.
C29_ClearedAtCommit ==
  [][\A d \in Docs :
       /\ ( /\ last'.res = "queued" /\ last'.doc = d
            /\ last'.req.kind \in {"set", "update"} )
          => /\ last'.req.ledger \subseteq DOMAIN updated'[d]
             /\ (updated'[d] # EmptyData \/ updatedAll'[d])
       /\ (last'.op = "commit" /\ last'.res = "rejected")
          => \A i \in QueuedFor(d) :
               /\ inflight[i].ledger \subseteq DOMAIN updated'[d]
               /\ (updated'[d] # EmptyData \/ updatedAll'[d])]_vars

\* C30: a field written through `data` after save()/update() has issued its
\* remote write and before that write completes is still in the ledger when
\* the save resolves: a written value that the payload did not carry is not
\* dropped from tracking.
C30_LateWriteKept ==
  [][\A d \in Docs :
       ( /\ last'.op = "await" /\ last'.res = "ok" /\ last'.doc = d
         /\ last'.req.kind \in {"set", "update"} )
       => \A key \in DOMAIN written[d] :
            serializeValue(Prop(data[d], key)) # Prop(last'.req.payload, key)
            => key \in DOMAIN updated'[d]]_vars

\* C28 as stated: for every path template and every structured key whose
\* fields are all strings, parseKey(buildPath(key, template), template)
\* returns without error a key deep-equal to the original key.
C28_AsStated ==
  call.fn = "key" /\ call.stage = "parsed"
  => /\ call.parsed.threw = "none"
     /\ deepEqual(call.parsed.key, call.key)

\* every segment of the template is a literal without braces or one whole
\* placeholder
WholeSegments(pathTemplate) ==
  \A i \in 1..Len(Split(pathTemplate)) :
    LET part == Split(pathTemplate)[i] IN
    \/ \A j \in 1..Len(part) : part[j] \notin {"{", "}"}
    \/ /\ IsPlaceholder(part)
       /\ Len(part) > 2
       /\ \A j \in 2..(Len(part) - 1) : IsWord(part[j])

\* the names of the template's placeholders
Placeholders(pathTemplate) ==
  {KeyName(Split(pathTemplate)[i]) :
     i \in {j \in 1..Len(Split(pathTemplate)) :
              IsPlaceholder(Split(pathTemplate)[j])}}

\* C28: for a non-empty template whose placeholders are whole segments, and
\* a key whose fields are exactly the template's placeholders, each a
\* non-empty string without '/', parseKey(buildPath(key, template),
\* template) returns a key deep-equal to the original key.
C28_RoundTrip ==
  ( /\ call.fn = "key" /\ call.stage = "parsed"
    /\ call.pathTemplate # <<>>
    /\ WholeSegments(call.pathTemplate)
    /\ DOMAIN call.key = Placeholders(call.pathTemplate)
    /\ \A name \in DOMAIN call.key :
         /\ call.key[name].v # <<>>
         /\ \A i \in 1..Len(call.key[name].v) : call.key[name].v[i] # "/" )
  => /\ call.parsed.threw = "none"
     /\ deepEqual(call.parsed.key, call.key)

\* a key with two fields has gone through '{u}/{v}' and come back
C28_Witness ==
  /\ call.fn = "key" /\ call.stage = "parsed"
  /\ Cardinality(DOMAIN call.key) = 2
  /\ DOMAIN call.key = Placeholders(call.pathTemplate)
  /\ call.path = StrV(<<"a", "/", "a">>)
  /\ call.parsed.threw = "none"
  /\ call.parsed.key = call.key

\* C27 as stated: for every value built from primitives, dates, arrays and
\* nested plain mappings, unserialize(serialize(v)) is deep-equal to v, with
\* dates equal to the millisecond.
C27_AsStated ==
  call.fn = "codec" /\ call.stage = "unserialized"
  => /\ call.back = call.value
     /\ deepEqualValue(call.back, call.value)

\* some plain mapping in the value has a property that holds undefined
RECURSIVE HasUndefinedProperty(_)
HasUndefinedProperty(value) ==
  IF value.k = "Array"
  THEN \E i \in 1..Len(value.v) : HasUndefinedProperty(value.v[i])
  ELSE IF value.k = "Object"
  THEN \E key \in DOMAIN value.v :
         \/ value.v[key] = Undefined
         \/ HasUndefinedProperty(value.v[key])
  ELSE FALSE

\* C27: for every value built from primitives, dates, arrays and nested plain
\* mappings in which no mapping has a property holding undefined,
\* unserialize(serialize(v)) is deep-equal to v, with dates equal to the
\* millisecond.
C27_RoundTrip ==
  ( /\ call.fn = "codec" /\ call.stage = "unserialized"
    /\ ~HasUndefinedProperty(call.value) )
  => /\ call.back = call.value
     /\ deepEqualValue(call.back, call.value)

\* a nested mapping with a date field has been stored as a timestamp of one
\* second and 500 million nanoseconds and read back
C27_Witness ==
  /\ call.fn = "codec" /\ call.stage = "unserialized"
  /\ call.value = ObjV([a \in {"a"} |-> ObjV([d \in {"d"} |-> DateV(1500)])])
  /\ call.stored.v["a"].v["d"].v = [seconds |-> 1, nanoseconds |-> 500000000]
  /\ call.back = call.value

\* C21: save() on a collection without a transaction is atomic: when it
\* resolves every dirty Document of the map has been written remotely, and
\* when it rejects none has.
C21_SaveAtomic ==
  [][last'.op = "colsave"
       => /\ last'.res = "ok" => last'.arg.written = last'.arg.dirty
          /\ last'.res = "rejected" => last'.arg.written = {}]_vars

\* C22: delete(id) on a collection with a reference deletes remotely; once
\* that resolved (or was queued on a transaction) the id is not in the map,
\* whether or not it was, and the other ids are untouched; when the remote
\* delete rejects the map is as it was.
C22_DeleteFromMap ==
  [][\A id \in Ids :
       (last'.op = "coldelete" /\ last'.arg.id = id)
       => /\ last'.res = "ok"
             => /\ documents' = Without(documents, id)
                /\ stored' = stored \ {id}
          /\ last'.res = "queued" => documents' = Without(documents, id)
          /\ last'.res = "rejected"
             => /\ documents' = documents
                /\ stored' = stored]_vars

C22_Witness ==
  /\ last.op = "coldelete"
  /\ last.res = "rejected"
  /\ last.arg.id \in DOMAIN documents

\* C23: watch() on a collection whose watch is active throws and leaves the
\* listener, its callback and the fan-out queue list as they were.
C23_WatchTwice ==
  [][(last'.op = "colwatch" /\ colWatch)
       => /\ last'.res = "threw:watching"
          /\ UNCHANGED <<colWatch, colListeners, colSeen, colCallback,
                         colQueues>>]_vars

C23_Witness ==
  /\ last.op = "colwatch"
  /\ last.res = "threw:watching"
  /\ colCallback = "fanout"
  /\ colQueues # <<>>

\* C24: assigning the key or the condition of a collection while a watch is
\* active cancels it: right after, no listener is registered and the fan-out
\* list is empty.
C24_RebindCancels ==
  [][(last'.op \in {"colkey", "colcondition"} /\ last'.arg.watching)
       => /\ ~colWatch'
          /\ colCallback' = "none"
          /\ colQueues' = <<>>]_vars

C24_Witness ==
  /\ last.op = "colcondition"
  /\ last.arg.watching
  /\ last.arg.listed # <<>>
  /\ query

\* C25: a new consumer of a collection's snapshot() that finds a cached
\* array receives it first, without waiting for a push, and that array is
\* the current state of the collection: it holds a Document for exactly the
\* ids of its map.
C25_CachedIsCurrent ==
  [][\A c \in Consumers :
       ( /\ last'.op = "colsnapshot" /\ last'.doc = c
         /\ last'.res \in {"joined", "watched"}
         /\ last'.arg.cached.set )
       => /\ colPc'[c] = "yield"
          /\ colFirst'[c] = cached
          /\ DOMAIN cached.docs = DOMAIN documents]_vars

\* C31: a Document has no in-flight guard.  save() called again on the
\* dirty instance right after a save() whose write is still pending issues
\* a second write: it reads the same ledger and its payload holds the same
\* value for every changed field; and each write, when it completes, clears
\* the ledger.
C31_NoInflightGuard ==
  [][\A d \in Docs :
       /\ ( /\ last.op = "save" /\ last.res = "issued" /\ last.doc = d
            /\ isDirty(d)
            /\ last'.op = "save" /\ last'.doc = d /\ ops'[d] = ops[d] + 1 )
          => /\ last'.res = "issued"
             /\ Len(inflight') = Len(inflight) + 1
             /\ last'.req.ledger = last.req.ledger
             /\ \A key \in last.req.ledger :
                  Prop(last'.req.payload, key) = Prop(last.req.payload, key)
       /\ ( /\ last'.op = "await" /\ last'.res = "ok" /\ last'.doc = d
            /\ last'.req.kind \in {"set", "update"} )
          => /\ updated'[d] = EmptyData
             /\ ~updatedAll'[d]]_vars

\* two writes of save() calls on the same instance are pending, serialized
\* from the same non-empty ledger with the same payload
C31_Witness ==
  /\ Len(inflight) = 2
  /\ inflight[1].op = "save" /\ inflight[2].op = "save"
  /\ inflight[1].doc = inflight[2].doc
  /\ inflight[1].ledger # {}
  /\ inflight[1].ledger = inflight[2].ledger
  /\ inflight[1].payload = inflight[2].payload

\* C32: with a collection watch active, a get() that is in flight when a
\* push is applied never undoes the push: when it resolves the map holds
\* every id pushes added meanwhile and no id they removed.
C32_GetKeepsPush ==
  [][(last'.op = "colread" /\ colWatch)
       => /\ colRead.added \subseteq DOMAIN documents'
          /\ colRead.removed \cap DOMAIN documents' = {}]_vars

\* C33: a consumer of a Document's snapshot() that finishes removes only
\* its own queue from the fan-out list, never the queue of another consumer,
\* and never cancels a watch another consumer still depends on, also after
\* an unwatch() and a new subscription in the meantime.
C33_OwnQueueOnly ==
  [][\A c \in Consumers :
       (last'.op = "next" /\ last'.res = "done" /\ last'.doc = c)
       => /\ Listed(snapshotQueues) \ {c} \subseteq Listed(snapshotQueues')
          /\ (\E other \in Listed(snapshotQueues) \ {c} :
                pc[other] \in {"yield", "waiting"})
             => watching' = watching]_vars

\* a consumer has finished after the watch it started was cancelled and
\* another consumer registered a second one
C33_Witness ==
  /\ last.op = "next" /\ last.res = "done"
  /\ watchCount = 2
  /\ \E other \in Consumers \ {last.doc} : pc[other] \in {"yield", "waiting"}

\* C34: after a push reports a document as modified or added for an id that
\* already has a Document in the map, the Document bound to that id holds
\* the pushed document's field values.
C34_PushedValuesHeld ==
  [][last'.op = "colpush"
       => \A i \in 1..Len(last'.arg) :
            ( /\ last'.arg[i].type \in {"added", "modified"}
              /\ last'.arg[i].id \in DOMAIN documents )
            => docData'[last'.arg[i].id] = storedData[last'.arg[i].id]]_vars

\* C35: after a successful save no field of the Document's local data holds
\* the delete sentinel, and no full-overwrite set payload contains it.
C35_NoSentinelLeft ==
  [][\A d \in Docs :
       /\ ( /\ last'.op = "await" /\ last'.res = "ok" /\ last'.doc = d
            /\ last'.req.kind \in {"set", "update"} )
          => \A key \in DOMAIN data'[d] : data'[d][key] # DELETE_FIELD
       /\ ( /\ last'.res \in {"issued", "queued"} /\ last'.doc = d
            /\ last'.req.kind = "set" )
          => ~HasDelete(last'.req.payload)]_vars

\* C36: when the remote delete issued by delete() without a transaction
\* rejects, the Document's exist flag is still true afterwards.
C36_FailedDeleteKeepsExist ==
  [][\A d \in Docs :
       ( /\ last'.op = "await" /\ last'.res = "rejected" /\ last'.doc = d
         /\ last'.req.kind = "delete" )
       => exist'[d]]_vars

\* C37: every mutation of a Document's data made through the `data`
\* accessor is tracked, a change to a key inside a nested mapping held by a
\* field included: after it the owning top-level field is in the ledger and
\* isDirty is true.
C37_EveryMutationTracked ==
  [][\A d \in Docs :
       (last'.op \in {"setValue", "setNested"} /\ last'.doc = d)
       => /\ last'.arg.key \in DOMAIN updated'[d]
          /\ (Cardinality(DOMAIN updated'[d]) > 0 \/ updatedAll'[d])]_vars

\* C38: in every reachable state the store holds at most one listener for
\* a Document and at most one for a collection, across watch(), snapshot(),
\* unwatch(), the cancel function and key or condition changes.
C38_OneListener ==
  /\ Cardinality(listeners) <= 1
  /\ colListeners <= 1

\* the Document's second registration and a listener of the collection are
\* in place, the latter after a consumer subscribed
C38_Witness ==
  /\ watchCount = 2
  /\ listeners = {2}
  /\ colListeners = 1
  /\ colQueues # <<>>
  /\ colOps > 0

\* C17: with no clear(), the k-th dequeue call receives the k-th enqueued
\* item, as soon as both calls have been made: nothing is lost, duplicated
\* or reordered, on the backlog path and on the waiter path, and waiters are
\* served in the order they called.
C17_Fifo ==
  (lostItems = {} /\ lostWaiters = {}) =>
    /\ \A k \in 1..Len(results) :
         results[k] = IF k <= nEnq THEN k ELSE 0
    /\ aq.queue = [i \in 1..(IF nEnq > Len(results) THEN nEnq - Len(results)
                             ELSE 0) |-> Len(results) + i]
    /\ aq.resolvers = [i \in 1..(IF Len(results) > nEnq THEN Len(results) - nEnq
                                 ELSE 0) |-> nEnq + i]

\* the second of three waiters has just been handed the second item, after a
\* first item went through the backlog or a waiter
C17_Witness ==
  /\ lostItems = {} /\ lostWaiters = {}
  /\ last.op = "enqueue" /\ last.res = "resolved"
  /\ Len(results) = 3 /\ results[2] = 2 /\ results[3] = 0
  /\ aq.resolvers = <<3>>

\* C18: clear() empties the backlog and forgets every waiting consumer
\* without resolving it: an item that was buffered at a clear() is never
\* delivered, and a dequeue that was pending at a clear() is never resolved.
C18_Clear ==
  /\ last.op = "clear" => aq = NewQueue
  /\ \A k \in lostWaiters : results[k] = 0 /\ k \notin Range(aq.resolvers)
  /\ \A k \in 1..Len(results) : results[k] \notin lostItems
  /\ \A item \in lostItems : item \notin Range(aq.queue)

\* after a clear() dropped a waiter, a later dequeue has received a later item
C18_Witness ==
  /\ lostWaiters # {}
  /\ \E k \in lostWaiters : \E j \in 1..Len(results) : j > k /\ results[j] # 0

\* C39: in every reachable state of an AsyncQueue the backlog and the list
\* of waiting consumers are not both non-empty, and `length` is the number of
\* buffered items (those enqueued and neither handed to a consumer nor
\* cleared), not counting waiting consumers.
C39_BacklogOrWaiters ==
  /\ ~(Len(aq.queue) > 0 /\ Len(aq.resolvers) > 0)
  /\ length(aq) = nEnq - Cardinality({k \in 1..Len(results) : results[k] # 0})
                       - Cardinality(lostItems)

\* consumers are waiting on a queue that items have passed through
C39_Witness ==
  /\ Len(aq.resolvers) = 2
  /\ nEnq > 0
  /\ length(aq) = 0

====
